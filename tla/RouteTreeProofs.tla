--------------------------- MODULE RouteTreeProofs ----------------------------
(***************************************************************************)
(* Theorems about RouteTree, for any patterns, paths and tokens, whatever  *)
(* the order in which the routes are registered: between two registrations *)
(* the tree has the shape that getValue relies on, a lookup finds the      *)
(* handler of a route that matches the path if, and only if, no other route*)
(* is preferred to it, whatever it finds matches, and no redirect leads    *)
(* back.                                                                   *)
(*                                                                         *)
(* The invariant gives each node x a text t[x], the tokens of the patterns *)
(* before it, and each route its way T down the tree: a handler is at the  *)
(* end of a node where the texts spell its route, and each route has its   *)
(* handler.  While a registration is under way one node may be blank, and  *)
(* the way of the new pattern ends where the registration stands.          *)
(*                                                                         *)
(* A turn of a lookup at node x has read t[x] along the path.  It has found*)
(* a route that may serve the path (Sound); while a route is preferred, it *)
(* stays on that route's way (Aims); where another one is preferred to it, *)
(* it leaves that way for good (Strays).  The lookups of a path and of the *)
(* same with one more slash stay at the same node until one of them        *)
(* recommends no redirect any more (Beside).                               *)
(***************************************************************************)
EXTENDS RouteTree, SequenceTheorems, WellFoundedInduction, TLAPS

-----------------------------------------------------------------------------
(* Operators                                                               *)

\* A set of numbers has a least one.
LEMMA Least ==
  ASSUME NEW T \in SUBSET Nat, T # {}
  PROVE  \E n \in T : \A m \in T : n <= m
<1> DEFINE R == OpToRel(<, Nat)
<1>1. IsWellFoundedOn(R, Nat)
  BY NatLessThanWellFounded
<1>2. \A m, n \in Nat : m < n => <<m, n>> \in R
  BY DEF OpToRel
<1> HIDE DEF R
<1>3. PICK n \in T : \A m \in T : <<m, n>> \notin R
  BY <1>1, WFMin
<1>4. ASSUME NEW m \in T PROVE n <= m
  <2>1. m \in Nat /\ n \in Nat /\ ~(m < n)
    BY <1>2, <1>3
  <2> QED
    BY <2>1
<1> QED
  BY <1>3, <1>4

\* Induction over the numbers, for the set S of those that have the property.
LEMMA SetInduction ==
  ASSUME NEW S, 0 \in S, \A n \in Nat : n \in S => n + 1 \in S
  PROVE  Nat \subseteq S
<1> SUFFICES ASSUME Nat \ S # {} PROVE FALSE
  OBVIOUS
<1>1. PICK n \in Nat \ S : \A m \in Nat \ S : n <= m
  BY Least
<1>2. n - 1 \in Nat /\ n = (n - 1) + 1
  BY <1>1
<1> QED
  BY <1>1, <1>2

\* Memory after a write.
LEMMA PutFacts ==
  ASSUME NEW h, NEW x, NEW m
  PROVE  /\ DOMAIN Put(h, x, m) = DOMAIN h \cup {x}
         /\ Put(h, x, m)[x] = m
         /\ \A y \in DOMAIN h : y # x => Put(h, x, m)[y] = h[y]
  BY DEF Put

\* A new pointer is not in use.
LEMMA NewFresh ==
  ASSUME NEW h, NEW name
  PROVE  New(h, name) \notin DOMAIN h
<1>1. \E x : x \notin DOMAIN h
  BY NoSetContainsEverything
<1> QED
  BY <1>1 DEF New

\* Index is the first place of a token.
LEMMA IndexFacts ==
  ASSUME NEW S, NEW s \in Seq(S), NEW c
  PROVE  /\ Index(s, c) \in 0 .. Len(s)
         /\ Index(s, c) > 0 => s[Index(s, c)] = c
         /\ \A i \in 1 .. Len(s) : s[i] = c => Index(s, c) > 0 /\ Index(s, c) <= i
<1> DEFINE I == {i \in 1 .. Len(s) : s[i] = c}
<1>1. Index(s, c) = IF I # {} THEN Min(I) ELSE 0
  BY DEF Index, SelectInSeq
<1>2. CASE I = {}
  BY <1>1, <1>2
<1>3. CASE I # {}
  <2>1. I \in SUBSET Nat
    BY LenProperties
  <2>2. \E n \in I : \A m \in I : n <= m
    BY <1>3, <2>1, Least
  <2>3. Min(I) \in I /\ \A m \in I : Min(I) <= m
    BY <2>2 DEF Min
  <2>4. Index(s, c) \in I /\ \A m \in I : Index(s, c) <= m
    BY <1>1, <1>3, <2>3
  <2> HIDE DEF Index
  <2> QED
    BY <2>4
<1> QED
  BY <1>2, <1>3

\* SharedLength is the length of the longest common prefix.
LEMMA SharedFacts ==
  ASSUME NEW S, NEW p \in Seq(S), NEW q \in Seq(S)
  PROVE  LET i == SharedLength(p, q) IN
         /\ i \in 0 .. Len(p) /\ i <= Len(q)
         /\ \A j \in 1 .. i : p[j] = q[j]
         /\ i < Len(p) /\ i < Len(q) => p[i + 1] # q[i + 1]
<1> DEFINE Ends == {i \in Nat : i < Len(p) /\ i < Len(q) => p[i + 1] # q[i + 1]}
           Shares(i) == /\ i <= Len(q) /\ SubSeq(p, 1, i) = SubSeq(q, 1, i)
                        /\ i < Len(p) /\ i < Len(q) => p[i + 1] # q[i + 1]
<1>1. Len(p) \in Ends /\ Len(q) \in Ends /\ Ends \in SUBSET Nat
  BY LenProperties
<1>2. PICK n \in Ends : \A m \in Ends : n <= m
  BY <1>1, Least
<1>3. n <= Len(p) /\ n <= Len(q)
  BY <1>1, <1>2
<1>4. \A j \in 1 .. n : p[j] = q[j]
  <2> SUFFICES ASSUME NEW j \in 1 .. n PROVE p[j] = q[j]
    OBVIOUS
  <2>1. j - 1 \in Nat /\ j - 1 < n /\ (j - 1) + 1 = j
    BY <1>3
  <2>2. j - 1 \notin Ends
    BY <1>2, <2>1
  <2> QED
    BY <1>3, <2>1, <2>2
<1>5. Shares(n)
  <2>1. SubSeq(p, 1, n) = SubSeq(q, 1, n)
    <3>1. \A j \in 1 .. n : p[j] \in S /\ q[j] \in S
      BY <1>3, LenProperties
    <3>2. /\ SubSeq(p, 1, n) \in Seq(S) /\ Len(SubSeq(p, 1, n)) = n
          /\ SubSeq(q, 1, n) \in Seq(S) /\ Len(SubSeq(q, 1, n)) = n
          /\ \A j \in 1 .. n : SubSeq(p, 1, n)[j] = p[j] /\ SubSeq(q, 1, n)[j] = q[j]
      BY <3>1, SubSeqProperties
    <3> QED
      BY <1>4, <3>2, SeqEqual
  <2> QED
    BY <1>2, <1>3, <2>1
<1>6. n \in 0 .. Len(p)
  BY <1>3, LenProperties
<1>7. SharedLength(p, q) = CHOOSE i \in 0 .. Len(p) : Shares(i)
  BY DEF SharedLength
<1>8. SharedLength(p, q) \in 0 .. Len(p) /\ Shares(SharedLength(p, q))
  BY <1>5, <1>6, <1>7
<1> DEFINE i == SharedLength(p, q)
<1>9. \A j \in 1 .. i : SubSeq(p, 1, i)[j] = p[j] /\ SubSeq(q, 1, i)[j] = q[j]
  BY <1>8, LenProperties
<1> QED
  BY <1>8, <1>9

\* The first i tokens of a sequence and the rest.
LEMMA SliceFacts ==
  ASSUME NEW S, NEW s \in Seq(S), NEW n \in 0 .. Len(s)
  PROVE  /\ SubSeq(s, 1, n) \in Seq(S) /\ Len(SubSeq(s, 1, n)) = n
         /\ \A i \in 1 .. n : SubSeq(s, 1, n)[i] = s[i]
         /\ From(s, n) \in Seq(S) /\ Len(From(s, n)) = Len(s) - n
         /\ \A i \in 1 .. Len(s) - n : From(s, n)[i] = s[n + i]
         /\ SubSeq(s, 1, n) \o From(s, n) = s
<1>1. Len(s) \in Nat /\ \A i \in 1 .. Len(s) : s[i] \in S
  BY LenProperties
<1>2. /\ SubSeq(s, 1, n) \in Seq(S) /\ Len(SubSeq(s, 1, n)) = n
      /\ \A i \in 1 .. n : SubSeq(s, 1, n)[i] = s[i]
  <2>1. \A i \in 1 .. n : s[i] \in S
    BY <1>1
  <2> QED
    BY <2>1, SubSeqProperties
<1>3. /\ From(s, n) \in Seq(S) /\ Len(From(s, n)) = Len(s) - n
      /\ \A i \in 1 .. Len(s) - n : From(s, n)[i] = s[n + i]
  <2>1. \A i \in n + 1 .. Len(s) : s[i] \in S
    BY <1>1
  <2>2. /\ From(s, n) \in Seq(S)
        /\ Len(From(s, n)) = IF n + 1 <= Len(s) THEN Len(s) - (n + 1) + 1 ELSE 0
        /\ \A i \in 1 .. Len(s) - (n + 1) + 1 : From(s, n)[i] = s[n + 1 + i - 1]
    BY <1>1, <2>1, SubSeqProperties DEF From
  <2> QED
    BY <1>1, <2>2
<1>4. SubSeq(s, 1, n) \o From(s, n) = s
  <2> DEFINE l == SubSeq(s, 1, n)
             r == From(s, n)
  <2> HIDE DEF l, r
  <2>1. /\ l \o r \in Seq(S) /\ Len(l \o r) = Len(l) + Len(r)
        /\ \A i \in 1 .. Len(l) + Len(r) : (l \o r)[i] = IF i <= Len(l) THEN l[i] ELSE r[i - Len(l)]
    BY <1>2, <1>3, ConcatProperties DEF l, r
  <2>2. Len(l) = n /\ Len(r) = Len(s) - n
    BY <1>2, <1>3 DEF l, r
  <2>3. ASSUME NEW i \in 1 .. Len(s) PROVE (l \o r)[i] = s[i]
    <3>1. CASE i <= n
      BY <1>1, <1>2, <2>1, <2>2, <3>1 DEF l
    <3>2. CASE i > n
      <4>1. i - n \in 1 .. Len(s) - n /\ n + (i - n) = i
        BY <1>1, <3>2
      <4> QED
        BY <1>1, <1>3, <2>1, <2>2, <3>2, <4>1 DEF r
    <3>3. i <= n \/ i > n
      BY <1>1
    <3> QED
      BY <3>1, <3>2, <3>3
  <2>4. Len(l \o r) = Len(s)
    BY <1>1, <2>1, <2>2
  <2>5. l \o r = s
    BY <2>1, <2>3, <2>4, SeqEqual
  <2> QED
    BY <2>5 DEF l, r
<1> QED
  BY <1>2, <1>3, <1>4

\* A prefix, token by token.
LEMMA PrefixFacts ==
  ASSUME NEW S, NEW s \in Seq(S), NEW r \in Seq(S)
  PROVE  IsPrefix(s, r) <=> Len(s) <= Len(r) /\ \A i \in 1 .. Len(s) : s[i] = r[i]
<1>1. Len(s) \in Nat /\ Len(r) \in Nat /\ SubSeq(s, 1, Len(s)) = s
  BY LenProperties, SubSeqFull
<1>2. CASE Len(s) <= Len(r)
  <2>1. Len(s) \in 0 .. Len(r)
    BY <1>1, <1>2
  <2>2. /\ SubSeq(r, 1, Len(s)) \in Seq(S) /\ Len(SubSeq(r, 1, Len(s))) = Len(s)
        /\ \A i \in 1 .. Len(s) : SubSeq(r, 1, Len(s))[i] = r[i]
    BY <2>1, SliceFacts
  <2>3. (\A i \in 1 .. Len(s) : s[i] = r[i]) => s = SubSeq(r, 1, Len(s))
    BY <2>2, SeqEqual
  <2> QED
    BY <1>1, <1>2, <2>2, <2>3 DEF IsPrefix
<1>3. CASE ~(Len(s) <= Len(r))
  BY <1>3 DEF IsPrefix
<1> QED
  BY <1>2, <1>3

\* Concatenation is associative, and what a sequence begins with is a prefix of it.
LEMMA ConcatFacts ==
  ASSUME NEW S, NEW s \in Seq(S), NEW r \in Seq(S)
  PROVE  /\ s \o r \in Seq(S) /\ Len(s \o r) = Len(s) + Len(r)
         /\ \A i \in 1 .. Len(s) : (s \o r)[i] = s[i]
         /\ \A i \in 1 .. Len(r) : (s \o r)[Len(s) + i] = r[i]
         /\ IsPrefix(s, s \o r)
         /\ SubSeq(s \o r, 1, Len(s)) = s
<1>1. Len(s) \in Nat /\ Len(r) \in Nat
  BY LenProperties
<1>2. /\ s \o r \in Seq(S) /\ Len(s \o r) = Len(s) + Len(r)
      /\ \A i \in 1 .. Len(s) + Len(r) : (s \o r)[i] = IF i <= Len(s) THEN s[i] ELSE r[i - Len(s)]
  BY ConcatProperties
<1>3. \A i \in 1 .. Len(s) : (s \o r)[i] = s[i]
  BY <1>1, <1>2
<1>4. \A i \in 1 .. Len(r) : (s \o r)[Len(s) + i] = r[i]
  BY <1>1, <1>2
<1>5. IsPrefix(s, s \o r)
  <2> DEFINE c == s \o r
  <2>1. c \in Seq(S) /\ Len(s) <= Len(c) /\ \A i \in 1 .. Len(s) : s[i] = c[i]
    BY <1>1, <1>2, <1>3
  <2> HIDE DEF c
  <2>2. IsPrefix(s, c)
    BY <2>1, PrefixFacts
  <2> QED
    BY <2>2 DEF c
<1>6. SubSeq(s \o r, 1, Len(s)) = s
  BY <1>1, <1>5, SubSeqFull DEF IsPrefix
<1> QED
  BY <1>2, <1>3, <1>4, <1>5, <1>6

\* The place that a child moves to has no less than it before, and only less up to
\* where it was.
LEMMA PlaceFacts ==
  ASSUME NEW h, NEW n, NEW pos \in Nat \ {0},
         \A i \in 1 .. pos : h[h[n].children[i]].priority \in Nat
  PROVE  LET new == Place(h, n, pos)
             prio(i) == h[h[n].children[i]].priority
         IN  /\ new \in 1 .. pos
             /\ \A j \in new .. pos - 1 : prio(j) < prio(pos)
             /\ new > 1 => prio(new - 1) >= prio(pos)
<1> DEFINE prio(i) == h[h[n].children[i]].priority
           Fits(i) == /\ \A j \in i .. pos - 1 : prio(j) < prio(pos)
                      /\ i > 1 => prio(i - 1) >= prio(pos)
           I == {i \in 1 .. pos : \A j \in i .. pos - 1 : prio(j) < prio(pos)}
<1>1. \A i \in 1 .. pos : prio(i) \in Nat
  OBVIOUS
<1>2. Place(h, n, pos) = CHOOSE i \in 1 .. pos : Fits(i)
  BY DEF Place
<1> HIDE DEF prio
<1>3. pos \in I /\ I \in SUBSET Nat
  OBVIOUS
<1>4. PICK new \in I : \A m \in I : new <= m
  BY <1>3, Least
<1>5. new > 1 => prio(new - 1) >= prio(pos)
  <2> SUFFICES ASSUME new > 1, ~(prio(new - 1) >= prio(pos)) PROVE FALSE
    OBVIOUS
  <2>1. new - 1 \in 1 .. pos /\ new \in Nat /\ prio(new - 1) < prio(pos)
    BY <1>1
  <2>2. \A j \in new - 1 .. pos - 1 : j = new - 1 \/ j \in new .. pos - 1
    BY <2>1
  <2>3. new - 1 \in I
    BY <2>1, <2>2
  <2> QED
    BY <1>4, <2>1, <2>3
<1>6. Fits(new) /\ new \in 1 .. pos
  BY <1>5
<1>7. Place(h, n, pos) \in 1 .. pos /\ Fits(Place(h, n, pos))
  BY <1>2, <1>6
<1> QED
  BY <1>7 DEF prio

\* Moving an element forward permutes a sequence: Origin is where the element at i
\* comes from.
Origin(pos, new, i) == IF i = new THEN pos ELSE IF i \in new + 1 .. pos THEN i - 1 ELSE i

Forward(s, pos, new, r) ==
  /\ Len(r) = Len(s)
  /\ \A i \in 1 .. Len(s) : r[i] = s[Origin(pos, new, i)]
  /\ \A i \in 1 .. Len(s) : Origin(pos, new, i) \in 1 .. Len(s)
  /\ \A i, j \in 1 .. Len(s) : Origin(pos, new, i) = Origin(pos, new, j) => i = j
  /\ \A k \in 1 .. Len(s) : \E i \in 1 .. Len(s) : Origin(pos, new, i) = k

\* Moving an element forward rearranges a sequence.
LEMMA MovedFacts ==
  ASSUME NEW S, NEW s \in Seq(S), NEW pos \in 1 .. Len(s), NEW new \in 1 .. pos
  PROVE  Moved(s, pos, new) \in Seq(S) /\ Forward(s, pos, new, Moved(s, pos, new))
<1>1. Len(s) \in Nat /\ \A i \in 1 .. Len(s) : s[i] \in S
  BY LenProperties
<1>2. \A i \in 1 .. Len(s) : Origin(pos, new, i) \in 1 .. Len(s)
  BY <1>1 DEF Origin
<1>3. \A i, j \in 1 .. Len(s) : Origin(pos, new, i) = Origin(pos, new, j) => i = j
  BY <1>1 DEF Origin
<1>4. \A k \in 1 .. Len(s) : \E i \in 1 .. Len(s) : Origin(pos, new, i) = k
  <2> SUFFICES ASSUME NEW k \in 1 .. Len(s) PROVE \E i \in 1 .. Len(s) : Origin(pos, new, i) = k
    OBVIOUS
  <2>1. CASE k = pos
    BY <1>1, <2>1 DEF Origin
  <2>2. CASE k \in new .. pos - 1
    <3>1. k + 1 \in 1 .. Len(s) /\ Origin(pos, new, k + 1) = k
      BY <1>1, <2>2 DEF Origin
    <3> QED
      BY <3>1
  <2>3. CASE k < new \/ k > pos
    BY <1>1, <2>3 DEF Origin
  <2> QED
    BY <1>1, <2>1, <2>2, <2>3
<1>5. Moved(s, pos, new) = [i \in 1 .. Len(s) |-> s[Origin(pos, new, i)]]
  BY DEF Moved, Origin
<1> HIDE DEF Origin
<1>6. Moved(s, pos, new) \in [1 .. Len(s) -> S]
  BY <1>1, <1>2, <1>5
<1>7. Moved(s, pos, new) \in Seq(S)
  BY <1>1, <1>6, SeqDef
<1>8. Len(Moved(s, pos, new)) = Len(s)
  <2>1. DOMAIN Moved(s, pos, new) = 1 .. Len(s)
    BY <1>5
  <2>2. DOMAIN Moved(s, pos, new) = 1 .. Len(Moved(s, pos, new)) /\ Len(Moved(s, pos, new)) \in Nat
    BY <1>7, LenProperties
  <2> QED
    BY <1>1, <2>1, <2>2
<1>9. \A i \in 1 .. Len(s) : Moved(s, pos, new)[i] = s[Origin(pos, new, i)]
  BY <1>5
<1> QED
  BY <1>2, <1>3, <1>4, <1>7, <1>8, <1>9 DEF Forward

-----------------------------------------------------------------------------
(* The tree                                                                *)

Token == Char \cup Wildcard

\* The text of the patterns up to the end of node x; t is the text before each node.
End(h, t, x) == t[x] \o h[x].path

Kids(m) ==
  {m.children[i] : i \in 1 .. Len(m.children)} \cup {m.wild[i] : i \in 1 .. Len(m.wild)}

Static(m) == m.type \in {"static", "root"}

\* The index character that leads to x; a blank node is about to get a path with c.
Idx(h, c, x) == IF Blank(h[x]) THEN c ELSE IndexOf(h[x])

NodeType(D) ==
  [path : Seq(Token), type : {"static", "root", "param", "catchAll"}, priority : Nat,
   indices : Seq(Char), children : Seq(D), wild : Seq(D), data : Seq(Token)]

\* A child begins where its parent ends.
ChildrenOK(h, t, x) ==
  \A i \in 1 .. Len(h[x].children) :
    LET y == h[x].children[i] IN
    /\ t[y] = End(h, t, x)
    /\ h[y].type = IF h[x].type = "catchAll" THEN "catchAll" ELSE "static"

\* There is at most one wildcard child, and no static one beside a catch-all.
WildOK(h, t, x) ==
  /\ Len(h[x].wild) <= 1
  /\ \A i \in 1 .. Len(h[x].wild) :
       LET y == h[x].wild[i] IN
       /\ t[y] = End(h, t, x) /\ h[y].type \in {"param", "catchAll"}
       /\ h[y].type = "catchAll" => h[x].children = <<>> /\ h[y].path = <<>>

\* Each index leads to its own child, and the priorities descend.
IndicesOK(h, c, x) ==
  LET m == h[x] IN
  Static(m) =>
    /\ Len(m.indices) = Len(m.children)
    /\ \A i \in 1 .. Len(m.children) : m.indices[i] = Idx(h, c, m.children[i])
    /\ \A i, j \in 1 .. Len(m.children) : m.indices[i] = m.indices[j] => i = j
    /\ \A i, j \in 1 .. Len(m.children) :
         i <= j => h[m.children[i]].priority >= h[m.children[j]].priority

\* A static node with an empty path is blank or holds a catch-all.
StaticOK(h, x) ==
  LET m == h[x] IN
  Static(m) =>
    /\ m.path \in Seq(Char)
    /\ m.path = <<>> =>
         /\ m.data = NoData /\ m.children = <<>>
         /\ \A i \in 1 .. Len(m.wild) : h[m.wild[i]].type = "catchAll"

\* Only a slash goes on after a parameter.
ParamOK(h, c, x) ==
  LET m == h[x] IN
  m.type = "param" =>
    /\ Len(m.path) = 1 /\ m.path[1] \in Param /\ m.wild = <<>> /\ Len(m.children) <= 1
    /\ m.children = <<>> => m.indices = <<>>
    /\ \A i \in 1 .. Len(m.children) : Idx(h, c, m.children[i]) = "/"

\* The two nodes of a catch-all.
CatchAllOK(h, x) ==
  LET m == h[x] IN
  m.type = "catchAll" =>
    /\ m.wild = <<>>
    /\ \/ /\ m.path = <<>> /\ m.data = NoData /\ Len(m.children) = 1
          /\ h[m.children[1]].path # <<>>
       \/ /\ m.children = <<>> /\ m.data # NoData
          /\ \E w \in CatchAll : m.path = <<"/", w>>

NodeOK(h, t, c, x) ==
  /\ h[x] \in NodeType(DOMAIN h)
  /\ ChildrenOK(h, t, x) /\ WildOK(h, t, x) /\ IndicesOK(h, c, x)
  /\ StaticOK(h, x) /\ ParamOK(h, c, x) /\ CatchAllOK(h, x)

\* What any parent of y relies on is the same in memory g as in h.
Same(h, t, c, g, u, d, y) ==
  /\ u[y] = t[y] /\ g[y].type = h[y].type /\ Idx(g, d, y) = Idx(h, c, y)
  /\ h[y].type = "catchAll" => (g[y].path = <<>> <=> h[y].path = <<>>)

\* The path, the type and the handler of a node that keeps its children: they are the
\* same, but for a handler where one may be; or the node is static and stays so.
Alike(m, k) ==
  \/ /\ k.type = m.type \/ (Static(m) /\ Static(k))
     /\ k.path = m.path
     /\ k.data = m.data \/ (m.path # <<>> /\ m.type # "catchAll")
  \/ Static(m) /\ Static(k) /\ k.path \in Seq(Char) /\ k.path # <<>>

\* A node z in memory g is right when it is like the node x in memory h, which was, and
\* what that one relied on has not changed.
LEMMA NodeFrame ==
  ASSUME NEW h, NEW t, NEW c, NEW g, NEW u, NEW d, NEW x, NEW z,
         NodeOK(h, t, c, x), DOMAIN h \subseteq DOMAIN g,
         g[z] \in NodeType(DOMAIN h), Alike(h[x], g[z]), End(g, u, z) = End(h, t, x),
         g[z].children = h[x].children, g[z].wild = h[x].wild, g[z].indices = h[x].indices,
         \A y \in Kids(h[x]) : Same(h, t, c, g, u, d, y),
         Static(h[x]) => \A i \in 1 .. Len(h[x].children) :
                           g[h[x].children[i]].priority = h[h[x].children[i]].priority
  PROVE  NodeOK(g, u, d, z)
<1> DEFINE m == h[x]
<1>1. m \in NodeType(DOMAIN h)
  BY DEF NodeOK
<1>2. \A i \in 1 .. Len(m.children) : Same(h, t, c, g, u, d, m.children[i])
  BY DEF Kids
<1>3. \A i \in 1 .. Len(m.wild) : Same(h, t, c, g, u, d, m.wild[i])
  BY DEF Kids
<1>4. g[z] \in NodeType(DOMAIN g)
  <2>1. \A s : s \in Seq(DOMAIN h) => s \in Seq(DOMAIN g)
    BY SeqMonotonic
  <2> QED
    BY <2>1 DEF NodeType
<1>5. /\ g[z].type = "catchAll" <=> m.type = "catchAll"
      /\ Static(g[z]) <=> Static(m)
  BY DEF Alike, Static
<1>6. ChildrenOK(g, u, z)
  BY <1>2, <1>5 DEF NodeOK, ChildrenOK, Same
<1>7. WildOK(g, u, z)
  BY <1>3 DEF NodeOK, WildOK, Same
<1>8. IndicesOK(g, d, z)
  <2> SUFFICES ASSUME Static(m) PROVE IndicesOK(g, d, z)
    BY <1>5 DEF IndicesOK
  <2>1. /\ Len(m.indices) = Len(m.children)
        /\ \A i \in 1 .. Len(m.children) : m.indices[i] = Idx(h, c, m.children[i])
        /\ \A i, j \in 1 .. Len(m.children) : m.indices[i] = m.indices[j] => i = j
        /\ \A i, j \in 1 .. Len(m.children) :
             i <= j => h[m.children[i]].priority >= h[m.children[j]].priority
    BY DEF NodeOK, IndicesOK
  <2>2. \A i \in 1 .. Len(m.children) :
          /\ Idx(g, d, m.children[i]) = Idx(h, c, m.children[i])
          /\ g[m.children[i]].priority = h[m.children[i]].priority
    BY <1>2 DEF Same
  <2> QED
    BY <2>1, <2>2 DEF IndicesOK
<1>9. StaticOK(g, z)
  <2> SUFFICES ASSUME Static(g[z]) PROVE StaticOK(g, z)
    BY DEF StaticOK
  <2>1. CASE g[z].path \in Seq(Char) /\ g[z].path # <<>>
    BY <2>1 DEF StaticOK
  <2>2. CASE g[z].path = m.path /\ (g[z].data = m.data \/ m.path # <<>>)
    BY <1>3, <1>5, <2>2 DEF NodeOK, StaticOK, Same
  <2> QED
    BY <2>1, <2>2 DEF Alike
<1>10. ParamOK(g, d, z)
  <2> SUFFICES ASSUME g[z].type = "param" PROVE ParamOK(g, d, z)
    BY DEF ParamOK
  <2>1. m.type = "param" /\ g[z].path = m.path
    BY DEF Alike, Static
  <2> QED
    BY <1>2, <2>1 DEF NodeOK, ParamOK, Same
<1>11. CatchAllOK(g, z)
  <2> SUFFICES ASSUME g[z].type = "catchAll" PROVE CatchAllOK(g, z)
    BY DEF CatchAllOK
  <2>1. m.type = "catchAll" /\ g[z].path = m.path /\ g[z].data = m.data
    BY DEF Alike, Static
  <2>2. Len(m.children) = 1 => Same(h, t, c, g, u, d, m.children[1])
    BY <1>2
  <2> QED
    BY <2>1, <2>2 DEF NodeOK, ChildrenOK, CatchAllOK, Same
<1> QED
  BY <1>4, <1>6, <1>7, <1>8, <1>9, <1>10, <1>11 DEF NodeOK

\* A node's handler is that of the route whose text ends there.
DataOK(h, t, R, x) == h[x].data = NoData \/ (h[x].data = End(h, t, x) /\ h[x].data \in R)

\* Each node has at most one place in the tree.
Apart(h) ==
  /\ \A x \in DOMAIN h : Root \notin Kids(h[x])
  /\ \A x, y \in DOMAIN h : x # y => Kids(h[x]) \cap Kids(h[y]) = {}

\* The tree in memory h, of the routes in R.  Only n may be blank.
Tree(h, t, c, R, n) ==
  /\ Root \in DOMAIN h /\ n \in DOMAIN h /\ t \in [DOMAIN h -> Seq(Token)] /\ t[Root] = <<>>
  /\ Static(h[Root]) /\ Idx(h, c, Root) = "/"
  /\ \A x \in DOMAIN h : NodeOK(h, t, c, x) /\ DataOK(h, t, R, x) /\ (Blank(h[x]) => x = n)
  /\ Apart(h)

\* T holds <<r, x>> for the nodes x on the way of route r down the tree, which goes on to
\* its handler.  The way of the pattern p, which is being added, may end at o.
OnWay(h, t, T, R, p, o, r, x) ==
  /\ r \in R \cup {p} /\ r \in Pattern /\ x \in DOMAIN h
  /\ IsPrefix(End(h, t, x), r)
  /\ \/ h[x].data = r
     \/ \E y \in Kids(h[x]) : <<r, y>> \in T
     \/ r = p /\ x = o

\* Each route has a way from the root, and each node with a path is on one.
Ways(h, t, T, R, p, n, o) ==
  /\ \A r, x : <<r, x>> \in T => OnWay(h, t, T, R, p, o, r, x)
  /\ \A r \in R : <<r, Root>> \in T
  /\ n = Root \/ <<p, Root>> \in T
  /\ \A x \in DOMAIN h : Blank(h[x]) \/ \E r \in R \cup {p} : <<r, x>> \in T

\* The registration of p stands at the end of n's path, with rest to go.
StandsAt(h, t, T, R, p, n, rest) ==
  /\ Tree(h, t, "/", R, n) /\ Ways(h, t, T, R, p, n, n) /\ <<p, n>> \in T
  /\ p \in Pattern /\ rest \in Seq(Token) /\ p = End(h, t, n) \o rest
  /\ ~Blank(h[n]) /\ (rest = <<>> => h[n].path # <<>>)
  /\ \/ Static(h[n])
     \/ h[n].type = "param" /\ (rest = <<>> \/ rest[1] = "/")

\* The walk comes to n, from o unless n is the root.
WalksAt(h, t, T, R, p, n, path) ==
  /\ Tree(h, t, "/", R, n)
  /\ \E o : /\ Ways(h, t, T, R, p, n, o)
           /\ IF n = Root THEN o \notin DOMAIN h ELSE o \in DOMAIN h /\ n \in Kids(h[o])
  /\ p \in Pattern /\ path \in Seq(Token) /\ path # <<>> /\ p = t[n] \o path
  /\ ~Blank(h[n]) /\ h[n].priority > 0
  /\ \/ Static(h[n]) /\ path[1] = IndexOf(h[n])
     \/ /\ h[n].type = "param" /\ path[1] = h[n].path[1]
        /\ Len(path) = 1 \/ path[2] = "/"

\* The rest of the pattern is to be inserted at n, which is blank, or has no wildcard
\* and gets one.
InsertsAt(h, t, T, R, p, n, path) ==
  /\ Tree(h, t, path[1], R, n) /\ Ways(h, t, T, R, p, n, n) /\ <<p, n>> \in T
  /\ p \in Pattern /\ path \in Seq(Token) /\ path # <<>> /\ p = End(h, t, n) \o path
  /\ Static(h[n]) /\ h[n].wild = <<>>
  /\ IF Blank(h[n]) THEN path[1] \in Char ELSE path[1] \in Wildcard

\* No registration is under way.
RestsAt(h, t, T, R) == Tree(h, t, "/", R, Root) /\ Ways(h, t, T, R, <<>>, Root, Root)

\* The inductive invariant.
Inv ==
  /\ routes \subseteq Pattern /\ call.loop \in {"idle", "walk", "insert", "panic"}
  /\ call = [loop |-> call.loop, n |-> call.n, path |-> call.path, pattern |-> call.pattern]
  /\ call.loop = "idle" => \E t, T : RestsAt(node, t, T, routes)
  /\ call.loop = "walk" =>
       \E t, T : WalksAt(node, t, T, routes, call.pattern, call.n, call.path)
  /\ call.loop = "insert" =>
       \E t, T : InsertsAt(node, t, T, routes, call.pattern, call.n, call.path)

\* The ways in memory h are ways in g, whose nodes end with the same text, handler and
\* children.
LEMMA WaysFrame ==
  ASSUME NEW h, NEW t, NEW T, NEW R, NEW p, NEW n, NEW o, NEW g, NEW u,
         Ways(h, t, T, R, p, n, o), DOMAIN g = DOMAIN h,
         \A x \in DOMAIN h : /\ End(g, u, x) = End(h, t, x) /\ g[x].data = h[x].data
                             /\ Kids(g[x]) = Kids(h[x]) /\ (Blank(g[x]) <=> Blank(h[x]))
  PROVE  Ways(g, u, T, R, p, n, o)
<1>1. ASSUME NEW r, NEW x, <<r, x>> \in T PROVE OnWay(g, u, T, R, p, o, r, x)
  <2>1. OnWay(h, t, T, R, p, o, r, x)
    BY <1>1 DEF Ways
  <2>2. x \in DOMAIN h
    BY <2>1 DEF OnWay
  <2>3. End(g, u, x) = End(h, t, x) /\ g[x].data = h[x].data /\ Kids(g[x]) = Kids(h[x])
    BY <2>2
  <2> QED
    BY <2>1, <2>3 DEF OnWay
<1> QED
  BY <1>1 DEF Ways

\* A node and its parent.
LEMMA KidFacts ==
  ASSUME NEW h, NEW t, NEW c, NEW R, NEW n, Tree(h, t, c, R, n),
         NEW x \in DOMAIN h, NEW y \in Kids(h[x])
  PROVE  /\ y \in DOMAIN h /\ y # x /\ y # Root
         /\ t[y] = End(h, t, x)
         /\ \A z \in DOMAIN h : y \in Kids(h[z]) => z = x
<1>1. NodeOK(h, t, c, x) /\ h[x] \in NodeType(DOMAIN h) /\ t[x] \in Seq(Token)
  BY DEF Tree, NodeOK
<1>2. h[x].path \in Seq(Token) /\ h[x].children \in Seq(DOMAIN h) /\ h[x].wild \in Seq(DOMAIN h)
  BY <1>1 DEF NodeType
<1>3. y \in DOMAIN h
  <2>1. \A i \in 1 .. Len(h[x].children) : h[x].children[i] \in DOMAIN h
    BY <1>2, ElementOfSeq
  <2>2. \A i \in 1 .. Len(h[x].wild) : h[x].wild[i] \in DOMAIN h
    BY <1>2, ElementOfSeq
  <2> QED
    BY <2>1, <2>2 DEF Kids
<1>4. t[y] = End(h, t, x)
  BY <1>1 DEF NodeOK, ChildrenOK, WildOK, Kids
<1>5. \A z \in DOMAIN h : y \in Kids(h[z]) => z = x
  BY DEF Tree, Apart
<1>6. y # Root
  BY DEF Tree, Apart
<1>7. ASSUME y = x PROVE FALSE
  <2>1. t[x] \o h[x].path = t[x]
    BY <1>4, <1>7 DEF End
  <2>2. h[x].path = <<>>
    <3>1. \A a, b \in Seq(Token) : a \o b = a => b = <<>>
      BY ConcatEqualIffEmpty
    <3> QED
      BY <1>1, <1>2, <2>1, <3>1
  <2>3. Kids(h[x]) # {}
    OBVIOUS
  <2>4. h[x].type \in {"static", "root", "param", "catchAll"}
    BY <1>1 DEF NodeType
  <2>5. CASE Static(h[x])
    <3>1. /\ Len(h[x].children) = 0
          /\ \A i \in 1 .. Len(h[x].wild) : h[h[x].wild[i]].type = "catchAll"
      BY <1>1, <2>2, <2>5, EmptySeq DEF NodeOK, StaticOK
    <3> QED
      BY <1>7, <2>5, <3>1 DEF Kids, Static
  <2>6. CASE h[x].type = "param"
    BY <1>1, <2>2, <2>6, EmptySeq DEF NodeOK, ParamOK
  <2>7. CASE h[x].type = "catchAll"
    <3>1. /\ Len(h[x].wild) = 0
          /\ h[x].children = <<>> \/ (Len(h[x].children) = 1 /\ h[h[x].children[1]].path # <<>>)
      BY <1>1, <2>7, EmptySeq DEF NodeOK, CatchAllOK
    <3> QED
      BY <1>7, <2>2, <3>1, EmptySeq DEF Kids
  <2> QED
    BY <2>4, <2>5, <2>6, <2>7 DEF Static
<1> QED
  BY <1>3, <1>4, <1>5, <1>6, <1>7

\* A pattern is a sequence of tokens that begins with a slash.
LEMMA PatternTokens ==
  ASSUME NEW p \in Pattern
  PROVE  p \in Seq(Token) /\ p # <<>> /\ p[1] = "/" /\ Len(p) \in Nat \ {0}
<1>1. p \in Seq(Token) /\ p # <<>> /\ p[1] = "/"
  BY PatternAssumption DEF Token
<1> QED
  BY <1>1, EmptySeq

\* What a prefix begins with is a prefix.
LEMMA PrefixTrans ==
  ASSUME NEW S, NEW a \in Seq(S), NEW b \in Seq(S), NEW r \in Seq(S), IsPrefix(a \o b, r)
  PROVE  IsPrefix(a, r)
<1> DEFINE c == a \o b
<1>1. /\ c \in Seq(S) /\ Len(c) = Len(a) + Len(b)
      /\ \A i \in 1 .. Len(a) : c[i] = a[i]
      /\ Len(a) \in Nat /\ Len(b) \in Nat
  BY ConcatFacts, LenProperties
<1> HIDE DEF c
<1>2. Len(c) <= Len(r) /\ \A i \in 1 .. Len(c) : c[i] = r[i]
  BY <1>1, PrefixFacts, ZenonT(40) DEF c
<1>3. Len(a) <= Len(r) /\ \A i \in 1 .. Len(a) : a[i] = r[i]
  <2>1. Len(r) \in Nat
    BY LenProperties
  <2> QED
    BY <1>1, <1>2, <2>1
<1> QED
  BY <1>3, PrefixFacts

\* Memory g is h with m written at x, and with a node k at y, too.
Written(g, h, x, m) ==
  /\ DOMAIN g = DOMAIN h \cup {x} /\ g[x] = m
  /\ \A z \in DOMAIN h : z # x => g[z] = h[z]

BothWritten(g, h, x, m, y, k) ==
  /\ DOMAIN g = DOMAIN h \cup {x, y} /\ g[x] = m /\ g[y] = k
  /\ \A z \in DOMAIN h : z # x /\ z # y => g[z] = h[z]

\* Put writes.
LEMMA PutWritten ==
  ASSUME NEW h, NEW x, NEW m
  PROVE  Written(Put(h, x, m), h, x, m)
BY DEF Put, Written

\* Two of them write both.
LEMMA PutBoth ==
  ASSUME NEW h, NEW x, NEW m, NEW y, x # y, NEW k
  PROVE  BothWritten(Put(Put(h, x, m), y, k), h, x, m, y, k)
BY DEF Put, BothWritten

\* In memory g node n has the first i tokens of its path, and a tree and ways below it.
Parted(h, t, T, R, p, n, o, i, g) ==
  /\ g[n].path = SubSeq(h[n].path, 1, i) /\ g[n].type = h[n].type
  /\ \A x \in DOMAIN h : x # n => g[x] = h[x]
  /\ \E u, U : /\ Tree(g, u, "/", R, n) /\ Ways(g, u, U, R, p, n, o) /\ T \subseteq U
               /\ u[n] = t[n]

\* Splitting an edge keeps the tree and the ways down it.
LEMMA SplitTree ==
  ASSUME NEW h, NEW t, NEW T, NEW R, NEW p, NEW n, NEW o, NEW above,
         Tree(h, t, "/", R, n), Ways(h, t, T, R, p, n, o), o # n,
         ~Blank(h[n]), Static(h[n]), h[n].priority > 0,
         NEW i \in 1 .. Len(h[n].path) - 1
  PROVE  Parted(h, t, T, R, p, n, o, i, Split(h, n, i, above))
<1> DEFINE m == h[n]
           child == New(h, <<above, m.path[i + 1]>>)
           lower == [m EXCEPT !.type = "static", !.path = From(@, i), !.priority = @ - 1]
           upper == [m EXCEPT !.path = SubSeq(@, 1, i), !.indices = <<m.path[i + 1]>>,
                              !.children = <<child>>, !.wild = <<>>, !.data = NoData]
           g == Split(h, n, i, above)
           hd == SubSeq(m.path, 1, i)
           tl == From(m.path, i)
           u == Put(t, child, t[n] \o hd)
           U == T \cup {<<r, child>> : r \in {r \in R \cup {p} : <<r, n>> \in T}}
<1>1. /\ n \in DOMAIN h /\ Root \in DOMAIN h /\ t \in [DOMAIN h -> Seq(Token)] /\ t[Root] = <<>>
      /\ \A x \in DOMAIN h : NodeOK(h, t, "/", x) /\ DataOK(h, t, R, x) /\ ~Blank(h[x])
      /\ m \in NodeType(DOMAIN h) /\ m.path \in Seq(Char) /\ m.path \in Seq(Token)
  BY DEF Tree, NodeOK, StaticOK, NodeType
<1>2. child \notin DOMAIN h
  BY NewFresh
<1>3. g = Put(Put(h, child, lower), n, upper)
  BY DEF Split
<1>0. u = Put(t, child, t[n] \o hd)
  OBVIOUS
<1>u. U = T \cup {<<r, child>> : r \in {r \in R \cup {p} : <<r, n>> \in T}}
  OBVIOUS
<1>6. /\ lower.path = tl /\ lower.type = "static" /\ lower.priority = m.priority - 1
      /\ lower.indices = m.indices /\ lower.children = m.children /\ lower.wild = m.wild
      /\ lower.data = m.data
      /\ upper.path = hd /\ upper.type = m.type /\ upper.priority = m.priority
      /\ upper.indices = <<m.path[i + 1]>> /\ upper.children = <<child>> /\ upper.wild = <<>>
      /\ upper.data = NoData
  BY <1>1 DEF NodeType
<1> HIDE DEF child, g, lower, upper, u, U
<1>4. /\ DOMAIN g = DOMAIN h \cup {child} /\ g[n] = upper /\ g[child] = lower
      /\ \A x \in DOMAIN h : x # n => g[x] = h[x]
  <2>1. child # n
    BY <1>1, <1>2
  <2>2. BothWritten(g, h, child, lower, n, upper)
    BY <1>3, <2>1, PutBoth
  <2> QED
    BY <1>1, <1>2, <2>2 DEF BothWritten
<1>5. DOMAIN u = DOMAIN h \cup {child} /\ u[child] = t[n] \o hd
      /\ \A x \in DOMAIN h : u[x] = t[x]
  <2>1. DOMAIN t = DOMAIN h
    BY <1>1
  <2>2. Written(u, t, child, t[n] \o hd)
    BY <1>0, PutWritten
  <2> QED
    BY <1>2, <2>1, <2>2 DEF Written
<1>7. /\ tl \in Seq(Char) /\ tl \in Seq(Token)
      /\ Len(tl) = Len(m.path) - i /\ tl[1] = m.path[i + 1]
      /\ hd \in Seq(Char) /\ hd \in Seq(Token)
      /\ Len(hd) = i /\ hd[1] = m.path[1]
      /\ hd \o tl = m.path
      /\ m.path[i + 1] \in Char /\ Len(m.path) \in Nat
  <2>1. Len(m.path) \in Nat /\ i \in 0 .. Len(m.path) /\ 1 \in 1 .. Len(m.path) - i /\ 1 \in 1 .. i
        /\ i + 1 \in 1 .. Len(m.path)
    BY <1>1, LenProperties
  <2>2. m.path[i + 1] \in Char
    BY <1>1, <2>1, ElementOfSeq
  <2> HIDE DEF m
  <2>3. /\ hd \in Seq(Char) /\ Len(hd) = i
        /\ \A j \in 1 .. i : hd[j] = m.path[j]
        /\ tl \in Seq(Char) /\ Len(tl) = Len(m.path) - i
        /\ \A j \in 1 .. Len(m.path) - i : tl[j] = m.path[i + j]
        /\ hd \o tl = m.path
    BY <1>1, <2>1, SliceFacts, ZenonT(40)
  <2>4. tl \in Seq(Token) /\ hd \in Seq(Token)
    BY <1>1, <2>1, SliceFacts
  <2> HIDE DEF hd, tl
  <2> QED
    BY <2>1, <2>2, <2>3, <2>4
<1> HIDE DEF hd, tl
<1>8. /\ tl # <<>> /\ hd # <<>> /\ m.path # <<>>
  BY <1>7, EmptySeq
<1>9. End(g, u, child) = End(h, t, n) /\ \A x \in DOMAIN h : x # n => End(g, u, x) = End(h, t, x)
  <2>1. \A a, b, d \in Seq(Token) : (a \o b) \o d = a \o (b \o d)
    BY ConcatAssociative
  <2>2. t[n] \in Seq(Token)
    BY <1>1
  <2>4. (t[n] \o hd) \o tl = t[n] \o (hd \o tl)
    BY <1>7, <2>1, <2>2
  <2>3. (t[n] \o hd) \o tl = t[n] \o m.path
    BY <1>7, <2>4
  <2>5. u[child] = t[n] \o hd /\ g[child].path = tl
    BY <1>4, <1>5, <1>6
  <2> QED
    BY <1>4, <1>5, <1>6, <2>3, <2>5 DEF End
<1>10. u[child] = End(g, u, n)
  <2>1. u[n] = t[n] /\ g[n].path = hd
    BY <1>1, <1>4, <1>5, <1>6
  <2> QED
    BY <1>5, <2>1 DEF End
<1>11. Kids(lower) = Kids(m) /\ Kids(upper) = {child}
  BY <1>6 DEF Kids
<1>12. \A x \in DOMAIN h : \A y \in Kids(h[x]) : y \in DOMAIN h /\ y # child /\ y # Root
  BY <1>2, KidFacts
<1>13. \A y \in Kids(m) : y # n
  BY <1>1, KidFacts
<1>14. \A y \in DOMAIN h : Same(h, t, "/", g, u, "/", y)
  <2> SUFFICES ASSUME NEW y \in DOMAIN h PROVE Same(h, t, "/", g, u, "/", y)
    OBVIOUS
  <2>1. ~Blank(h[y])
    BY <1>1
  <2>2. CASE y # n
    BY <1>4, <1>5, <2>1, <2>2 DEF Same, Idx
  <2>3. CASE y = n
    BY <1>4, <1>5, <1>6, <1>7, <1>8, <2>1, <2>3 DEF Same, Idx, IndexOf, Blank
  <2> QED
    BY <2>2, <2>3
<1>15. \A y \in DOMAIN h : g[y].priority = h[y].priority
  BY <1>4, <1>6
<1>16. lower \in NodeType(DOMAIN h) /\ upper \in NodeType(DOMAIN g)
  <2>1. <<m.path[i + 1]>> \in Seq(Char) /\ <<child>> \in Seq(DOMAIN g)
    BY <1>4, <1>7
  <2>2. <<>> \in Seq(DOMAIN g) /\ <<>> \in Seq(Token)
    BY EmptySeq
  <2>3. m.priority - 1 \in Nat
    BY <1>1 DEF NodeType
  <2> QED
    BY <1>1, <1>7, <2>1, <2>2, <2>3 DEF NodeType, NoData, lower, upper, hd, tl
<1>17. NodeOK(g, u, "/", child)
  <2>1. Alike(m, lower)
    BY <1>6, <1>7, <1>8 DEF Alike, Static
  <2>2. \A j \in 1 .. Len(m.children) : m.children[j] \in DOMAIN h
    BY <1>1, <1>12 DEF Kids
  <2>3. /\ NodeOK(h, t, "/", n) /\ DOMAIN h \subseteq DOMAIN g
        /\ g[child] \in NodeType(DOMAIN h) /\ Alike(h[n], g[child])
        /\ End(g, u, child) = End(h, t, n)
        /\ g[child].children = h[n].children /\ g[child].wild = h[n].wild
        /\ g[child].indices = h[n].indices
    BY <1>1, <1>4, <1>6, <1>9, <1>16, <2>1
  <2>4. \A y \in Kids(h[n]) : Same(h, t, "/", g, u, "/", y)
    BY <1>1, <1>12, <1>14
  <2>5. \A j \in 1 .. Len(h[n].children) :
          g[h[n].children[j]].priority = h[h[n].children[j]].priority
    BY <1>15, <2>2
  <2> HIDE DEF m
  <2> QED
    BY <2>3, <2>4, <2>5, NodeFrame
<1>18. ASSUME NEW x \in DOMAIN h, x # n PROVE NodeOK(g, u, "/", x)
  <2>1. h[x] \in NodeType(DOMAIN h) /\ Alike(h[x], g[x])
    BY <1>1, <1>4, <1>18 DEF NodeOK, Alike
  <2>2. \A j \in 1 .. Len(h[x].children) : h[x].children[j] \in DOMAIN h
    BY <1>12 DEF Kids
  <2>3. /\ NodeOK(h, t, "/", x) /\ DOMAIN h \subseteq DOMAIN g /\ g[x] = h[x]
        /\ End(g, u, x) = End(h, t, x)
    BY <1>1, <1>4, <1>9, <1>18
  <2>4. \A y \in Kids(h[x]) : Same(h, t, "/", g, u, "/", y)
    BY <1>12, <1>14
  <2>5. \A j \in 1 .. Len(h[x].children) :
          g[h[x].children[j]].priority = h[h[x].children[j]].priority
    BY <1>15, <2>2
  <2> QED
    BY <2>1, <2>3, <2>4, <2>5, NodeFrame
<1>19. NodeOK(g, u, "/", n)
  <2>1. Len(upper.children) = 1 /\ upper.children[1] = child /\ Len(upper.wild) = 0
        /\ Len(upper.indices) = 1 /\ upper.indices[1] = m.path[i + 1]
    BY <1>6
  <2>2. ChildrenOK(g, u, n)
    BY <1>4, <1>6, <1>10, <2>1 DEF ChildrenOK, Static
  <2>3. WildOK(g, u, n)
    BY <1>4, <2>1 DEF WildOK
  <2>4. IndicesOK(g, "/", n)
    <3>1. Idx(g, "/", child) = m.path[i + 1]
      BY <1>4, <1>6, <1>7, <1>8 DEF Idx, IndexOf, Blank
    <3>2. lower.priority \in Nat
      BY <1>16 DEF NodeType
    <3> QED
      BY <1>4, <2>1, <3>1, <3>2 DEF IndicesOK
  <2>5. StaticOK(g, n)
    BY <1>4, <1>6, <1>7, <1>8 DEF StaticOK
  <2>6. Static(g[n])
    BY <1>4, <1>6 DEF Static
  <2>7. ParamOK(g, "/", n) /\ CatchAllOK(g, n)
    BY <2>6 DEF ParamOK, CatchAllOK, Static
  <2> QED
    BY <1>4, <1>16, <2>2, <2>3, <2>4, <2>5, <2>7 DEF NodeOK
<1>20. \A x \in DOMAIN g : DataOK(g, u, R, x) /\ ~Blank(g[x])
  <2>1. DataOK(g, u, R, child) /\ ~Blank(g[child])
    BY <1>1, <1>4, <1>6, <1>8, <1>9 DEF DataOK, Blank
  <2>2. DataOK(g, u, R, n) /\ ~Blank(g[n])
    BY <1>4, <1>6, <1>8 DEF DataOK, Blank
  <2>3. \A x \in DOMAIN h : x # n => DataOK(g, u, R, x) /\ ~Blank(g[x])
    BY <1>1, <1>4, <1>9 DEF DataOK
  <2> QED
    BY <1>4, <2>1, <2>2, <2>3
<1>21. Apart(g)
  <2>1. \A x \in DOMAIN h : x # n => Kids(g[x]) = Kids(h[x])
    BY <1>4
  <2>2. Kids(g[child]) = Kids(m) /\ Kids(g[n]) = {child}
    BY <1>4, <1>11
  <2>3. \A x, y \in DOMAIN h : x # y => Kids(h[x]) \cap Kids(h[y]) = {}
    BY DEF Tree, Apart
  <2>4. \A x \in DOMAIN g : Root \notin Kids(g[x])
    BY <1>1, <1>2, <1>4, <1>12, <2>1, <2>2
  <2>5. ASSUME NEW x \in DOMAIN g, NEW y \in DOMAIN g, x # y PROVE Kids(g[x]) \cap Kids(g[y]) = {}
    <3>1. x \in DOMAIN h \/ x = child
      BY <1>4
    <3>2. y \in DOMAIN h \/ y = child
      BY <1>4
    <3>3. CASE x = child
      BY <1>1, <1>2, <1>12, <2>1, <2>2, <2>3, <2>5, <3>2, <3>3
    <3>4. CASE y = child
      BY <1>1, <1>2, <1>12, <2>1, <2>2, <2>3, <2>5, <3>1, <3>4, ZenonT(40)
    <3>5. CASE x \in DOMAIN h /\ y \in DOMAIN h
      <4>1. CASE x = n
        BY <1>2, <1>12, <2>1, <2>2, <2>5, <3>5, <4>1
      <4>2. CASE y = n
        BY <1>2, <1>12, <2>1, <2>2, <2>5, <3>5, <4>2
      <4>3. CASE x # n /\ y # n
        <5>1. Kids(g[x]) = Kids(h[x]) /\ Kids(g[y]) = Kids(h[y])
          BY <2>1, <3>5, <4>3
        <5> QED
          BY <2>3, <2>5, <3>5, <5>1
      <4> QED
        BY <4>1, <4>2, <4>3
    <3> QED
      BY <3>1, <3>2, <3>3, <3>4, <3>5
  <2> QED
    BY <2>4, <2>5 DEF Apart
<1>22. u \in [DOMAIN g -> Seq(Token)]
  <2>1. u[child] \in Seq(Token)
    <3>1. \A a, b \in Seq(Token) : a \o b \in Seq(Token)
      BY ConcatProperties
    <3>2. t[n] \in Seq(Token)
      BY <1>1
    <3> QED
      BY <1>5, <1>7, <3>1, <3>2
  <2>2. \A x \in DOMAIN h : u[x] \in Seq(Token)
    BY <1>1, <1>5
  <2>3. u = [x \in DOMAIN u |-> u[x]]
    BY DEF u, Put
  <2> QED
    BY <1>4, <1>5, <2>1, <2>2, <2>3
<1>23. Tree(g, u, "/", R, n)
  <2>1. Static(g[Root]) /\ Idx(g, "/", Root) = "/"
    <3>1. Same(h, t, "/", g, u, "/", Root) /\ Static(h[Root]) /\ Idx(h, "/", Root) = "/"
      BY <1>1, <1>14 DEF Tree
    <3> QED
      BY <3>1 DEF Same, Static
  <2>2. \A x \in DOMAIN g : NodeOK(g, u, "/", x)
    BY <1>4, <1>17, <1>18, <1>19
  <2>3. Root \in DOMAIN g /\ n \in DOMAIN g /\ u[Root] = <<>>
    BY <1>1, <1>4, <1>5
  <2> QED
    BY <1>20, <1>21, <1>22, <2>1, <2>2, <2>3 DEF Tree
<1>24. Ways(g, u, U, R, p, n, o)
  <2>1. ASSUME NEW r, NEW x, <<r, x>> \in T PROVE OnWay(g, u, U, R, p, o, r, x)
    <3>1. OnWay(h, t, T, R, p, o, r, x)
      BY <2>1 DEF Ways
    <3>2. CASE x # n
      <4>1. /\ x \in DOMAIN h /\ x \in DOMAIN g /\ g[x] = h[x] /\ End(g, u, x) = End(h, t, x)
        BY <1>4, <1>9, <3>1, <3>2 DEF OnWay
      <4>2. (\E y \in Kids(h[x]) : <<r, y>> \in T) => \E y \in Kids(g[x]) : <<r, y>> \in U
        BY <1>u, <4>1
      <4> QED
        BY <3>1, <4>1, <4>2 DEF OnWay
    <3>3. CASE x = n
      <4>1. <<r, child>> \in U /\ child \in Kids(g[n])
        BY <1>4, <1>11, <1>u, <2>1, <3>1, <3>3 DEF OnWay
      <4>2. IsPrefix(End(g, u, n), r)
        <5> DEFINE a == End(g, u, n)
                   b == tl
        <5>1. a \in Seq(Token) /\ b \in Seq(Token) /\ a \o b = End(h, t, n)
          <6>1. u[child] \in Seq(Token)
            BY <1>4, <1>22
          <6> QED
            BY <1>4, <1>6, <1>7, <1>9, <1>10, <6>1 DEF End
        <5> HIDE DEF a, b
        <5>2. IsPrefix(a \o b, r)
          BY <3>1, <3>3, <5>1 DEF OnWay
        <5>3. r \in Seq(Token)
          BY <3>1, PatternTokens DEF OnWay
        <5> QED
          BY <5>1, <5>2, <5>3, PrefixTrans DEF a
      <4> QED
        BY <1>1, <1>4, <3>1, <3>3, <4>1, <4>2 DEF OnWay
    <3> QED
      BY <3>2, <3>3
  <2>2. ASSUME NEW r \in R \cup {p}, <<r, n>> \in T PROVE OnWay(g, u, U, R, p, o, r, child)
    <3>1. OnWay(h, t, T, R, p, o, r, n)
      BY <2>2 DEF Ways
    <3>2. g[child].data = h[n].data /\ Kids(g[child]) = Kids(h[n]) /\ child \in DOMAIN g
      BY <1>4, <1>6, <1>11
    <3> QED
      BY <1>9, <1>u, <3>1, <3>2 DEF OnWay
  <2>3. ASSUME NEW r, NEW x, <<r, x>> \in U PROVE OnWay(g, u, U, R, p, o, r, x)
    BY <1>u, <2>1, <2>2, <2>3
  <2>4. \A r \in R : <<r, Root>> \in U
    BY <1>u DEF Ways
  <2>5. n = Root \/ <<p, Root>> \in U
    BY <1>u DEF Ways
  <2>6. \A x \in DOMAIN g : Blank(g[x]) \/ \E r \in R \cup {p} : <<r, x>> \in U
    <3>1. \A x \in DOMAIN h : \E r \in R \cup {p} : <<r, x>> \in T
      BY <1>1 DEF Ways
    <3>2. \E r \in R \cup {p} : <<r, child>> \in U
      BY <1>1, <1>u, <3>1
    <3> QED
      BY <1>4, <1>u, <3>1, <3>2
  <2> QED
    BY <2>3, <2>4, <2>5, <2>6 DEF Ways
<1>25. T \subseteq U /\ u[n] = t[n] /\ g[n].path = hd /\ g[n].type = m.type
  BY <1>1, <1>4, <1>5, <1>6, <1>u
<1> QED
  BY <1>4, <1>23, <1>24, <1>25 DEF hd, g, Parted

\* A node on the way of r stays on it when the tree and the ways grow.
LEMMA OnWayFrame ==
  ASSUME NEW h, NEW t, NEW T, NEW R, NEW p, NEW o, NEW g, NEW u, NEW U, NEW S, NEW q, NEW e,
         NEW r, NEW x, OnWay(h, t, T, R, p, o, r, x), x \in DOMAIN g,
         End(g, u, x) = End(h, t, x) \/ IsPrefix(End(g, u, x), r), R \cup {p} \subseteq S \cup {q},
         h[x].data \in {NoData, g[x].data}, Kids(h[x]) \subseteq Kids(g[x]), T \subseteq U,
         r = p /\ x = o => \/ g[x].data = r
                           \/ \E y \in Kids(g[x]) : <<r, y>> \in U
                           \/ r = q /\ x = e
  PROVE  OnWay(g, u, U, S, q, e, r, x)
<1>1. r # NoData
  BY PatternTokens DEF OnWay, NoData
<1>2. r \in S \cup {q} /\ r \in Pattern /\ IsPrefix(End(g, u, x), r)
  BY DEF OnWay
<1>3. CASE h[x].data = r
  BY <1>1, <1>2, <1>3 DEF OnWay
<1>4. CASE \E y \in Kids(h[x]) : <<r, y>> \in T
  BY <1>2, <1>4 DEF OnWay
<1>5. CASE r = p /\ x = o
  BY <1>2, <1>5 DEF OnWay
<1> QED
  BY <1>3, <1>4, <1>5 DEF OnWay

\* Without a node at o the ways do not depend on it.
LEMMA WaysElse ==
  ASSUME NEW h, NEW t, NEW T, NEW R, NEW p, NEW n, NEW o, Ways(h, t, T, R, p, n, o),
         o \notin DOMAIN h, NEW e
  PROVE  Ways(h, t, T, R, p, n, e)
<1>1. ASSUME NEW r, NEW x, <<r, x>> \in T PROVE OnWay(h, t, T, R, p, e, r, x)
  <2>1. OnWay(h, t, T, R, p, o, r, x)
    BY <1>1 DEF Ways
  <2>2. x # o
    BY <2>1 DEF OnWay
  <2> QED
    BY <2>1, <2>2 DEF OnWay
<1> QED
  BY <1>1 DEF Ways

\* Where the walk comes from: nowhere, at the root.
Comes(h, n, o) == IF n = Root THEN o \notin DOMAIN h ELSE o \in DOMAIN h /\ n \in Kids(h[o])

\* The way of p goes on to n.
LEMMA WaysArrive ==
  ASSUME NEW h, NEW t, NEW T, NEW R, NEW p \in Pattern, NEW n \in DOMAIN h, NEW o,
         Ways(h, t, T, R, p, n, o), Comes(h, n, o), IsPrefix(End(h, t, n), p)
  PROVE  Ways(h, t, T \cup {<<p, n>>}, R, p, n, n)
<1> DEFINE U == T \cup {<<p, n>>}
<1>1. ASSUME NEW r, NEW x, <<r, x>> \in T PROVE OnWay(h, t, U, R, p, n, r, x)
  <2>1. OnWay(h, t, T, R, p, o, r, x)
    BY <1>1 DEF Ways
  <2>2. x \in DOMAIN h
    BY <2>1 DEF OnWay
  <2>3. r = p /\ x = o => \E y \in Kids(h[x]) : <<r, y>> \in U
    BY <2>2 DEF Comes
  <2> HIDE DEF U
  <2>4. T \subseteq U
    BY DEF U
  <2> QED
    BY <2>1, <2>2, <2>3, <2>4, OnWayFrame
<1>2. OnWay(h, t, U, R, p, n, p, n)
  BY DEF OnWay
<1> HIDE DEF OnWay
<1>3. \A r, x : <<r, x>> \in U => OnWay(h, t, U, R, p, n, r, x)
  BY <1>1, <1>2
<1> QED
  BY <1>3 DEF Ways

\* A turn of the walk begins by splitting the edge where the path leaves it.
LEMMA EdgeStands ==
  ASSUME NEW h, NEW t, NEW T, NEW R, NEW p, NEW n, NEW path, NEW above,
         WalksAt(h, t, T, R, p, n, path)
  PROVE  LET i == SharedLength(path, h[n].path)
             g == IF i < Len(h[n].path) THEN Split(h, n, i, above) ELSE h
         IN  \E u, U : StandsAt(g, u, U, R, p, n, From(path, i))
<1> DEFINE np == h[n].path
           i == SharedLength(path, np)
           g == IF i < Len(np) THEN Split(h, n, i, above) ELSE h
           hd == SubSeq(path, 1, i)
           rest == From(path, i)
<1>1. /\ Tree(h, t, "/", R, n) /\ n \in DOMAIN h /\ p \in Pattern /\ path \in Seq(Token)
      /\ path # <<>> /\ p = t[n] \o path /\ ~Blank(h[n]) /\ h[n].priority > 0
      /\ NodeOK(h, t, "/", n) /\ np \in Seq(Token) /\ t[n] \in Seq(Token)
      /\ h[n].type = "param" => Len(np) = 1
  BY DEF WalksAt, Tree, NodeOK, NodeType, ParamOK
<1>2. PICK o : Ways(h, t, T, R, p, n, o) /\ Comes(h, n, o)
  BY DEF WalksAt, Comes
<1> HIDE DEF np
<1>3. /\ i \in 0 .. Len(path) /\ i <= Len(np) /\ Len(np) \in Nat /\ Len(path) \in Nat \ {0}
      /\ \A j \in 1 .. i : path[j] = np[j]
      /\ i < Len(path) /\ i < Len(np) => path[i + 1] # np[i + 1]
  BY <1>1, SharedFacts, LenProperties, EmptySeq
<1>4. np # <<>> => i > 0
  <2>1. np # <<>> => path[1] = np[1]
    BY DEF WalksAt, IndexOf, np
  <2>2. np # <<>> => Len(np) > 0
    BY <1>1, <1>3, EmptySeq
  <2> HIDE DEF i
  <2> QED
    BY <1>3, <2>1, <2>2
<1> HIDE DEF i
<1>5. /\ hd \in Seq(Token) /\ Len(hd) = i /\ rest \in Seq(Token) /\ hd \o rest = path
      /\ \A j \in 1 .. i : hd[j] = path[j]
      /\ Len(rest) = Len(path) - i /\ \A j \in 1 .. Len(path) - i : rest[j] = path[i + j]
  BY <1>1, <1>3, SliceFacts
<1>6. hd = SubSeq(np, 1, i)
  <2>1. i \in 0 .. Len(np)
    BY <1>3
  <2>2. /\ SubSeq(np, 1, i) \in Seq(Token) /\ Len(SubSeq(np, 1, i)) = i
        /\ \A j \in 1 .. i : SubSeq(np, 1, i)[j] = np[j]
    BY <1>1, <2>1, SliceFacts
  <2> DEFINE l == SubSeq(np, 1, i)
  <2> HIDE DEF l, hd
  <2>3. l \in Seq(Token) /\ Len(l) = i /\ \A j \in 1 .. i : l[j] = np[j]
    BY <2>2 DEF l
  <2>4. hd = l
    BY <1>3, <1>5, <2>3, SeqEqual
  <2> QED
    BY <2>4 DEF l
<1>7. h[n].type = "param" => i = Len(np) /\ (rest = <<>> \/ rest[1] = "/")
  <2> SUFFICES ASSUME h[n].type = "param" PROVE i = Len(np) /\ (rest = <<>> \/ rest[1] = "/")
    OBVIOUS
  <2>1. i = 1 /\ Len(np) = 1
    BY <1>1, <1>3, <1>4, EmptySeq
  <2>2. Len(path) = 1 \/ path[2] = "/"
    BY DEF WalksAt, Static
  <2> HIDE DEF rest, hd
  <2>3. CASE Len(path) = 1
    BY <1>5, <2>1, <2>3, EmptySeq
  <2>4. CASE Len(path) # 1 /\ path[2] = "/"
    <3>0. Len(path) \in Nat \ {0}
      BY <1>3
    <3>1. 1 \in 1 .. Len(path) - 1 /\ 1 + 1 = 2
      BY <2>4, <3>0
    <3> QED
      BY <1>5, <2>1, <2>4, <3>1
  <2> QED
    BY <2>1, <2>2, <2>3, <2>4
<1>8. \E u, U, e : /\ Tree(g, u, "/", R, n) /\ Ways(g, u, U, R, p, n, e) /\ Comes(g, n, e)
                   /\ u[n] = t[n] /\ g[n].path = hd /\ g[n].type = h[n].type
  <2>1. CASE i < Len(np)
    <3>1. i \in 1 .. Len(np) - 1
      BY <1>3, <1>4, <2>1, EmptySeq
    <3>2. Static(h[n])
      BY <1>7, <2>1 DEF WalksAt
    <3>3. g = Split(h, n, i, above)
      BY <2>1
    <3> HIDE DEF g
    <3>4. PICK e : IF n = Root THEN e \notin DOMAIN g /\ e \notin DOMAIN h ELSE e = o
      <4>1. \E e : e \notin DOMAIN g \cup DOMAIN h
        BY NoSetContainsEverything
      <4> QED
        BY <4>1
    <3>5. Ways(h, t, T, R, p, n, e)
      BY <1>2, <3>4, WaysElse DEF Comes
    <3>6. e # n
      BY <1>1, <1>2, <3>4, KidFacts DEF Comes
    <3>7. /\ g[n].path = SubSeq(h[n].path, 1, i) /\ g[n].type = h[n].type
          /\ \A x \in DOMAIN h : x # n => g[x] = h[x]
          /\ \E u, U : /\ Tree(g, u, "/", R, n) /\ Ways(g, u, U, R, p, n, e) /\ T \subseteq U
                       /\ u[n] = t[n]
      <4>1. i \in 1 .. Len(h[n].path) - 1
        BY <3>1 DEF np
      <4>2. Tree(h, t, "/", R, n) /\ ~Blank(h[n]) /\ h[n].priority > 0
        BY <1>1
      <4>3. Parted(h, t, T, R, p, n, e, i, g)
        BY <3>2, <3>3, <3>5, <3>6, <4>1, <4>2, SplitTree
      <4> QED
        BY <4>3 DEF Parted
    <3>8. Comes(g, n, e)
      <4>1. DOMAIN h \subseteq DOMAIN g
        BY <3>3 DEF Split, Put
      <4> QED
        BY <1>2, <3>4, <3>6, <3>7, <4>1 DEF Comes
    <3> QED
      BY <1>6, <3>7, <3>8 DEF np
  <2>2. CASE ~(i < Len(np))
    <3>1. g = h /\ i = Len(np)
      BY <1>3, <2>2
    <3>2. hd = np
      BY <1>1, <1>6, <3>1, SubSeqFull
    <3> QED
      BY <1>1, <1>2, <3>1, <3>2 DEF np
  <2> QED
    BY <2>1, <2>2
<1> HIDE DEF g, hd, rest
<1>9. PICK u, U, e : /\ Tree(g, u, "/", R, n) /\ Ways(g, u, U, R, p, n, e) /\ Comes(g, n, e)
                     /\ u[n] = t[n] /\ g[n].path = hd /\ g[n].type = h[n].type
  BY <1>8
<1>10. /\ p = End(g, u, n) \o rest /\ IsPrefix(End(g, u, n), p)
       /\ n \in DOMAIN g
  <2> DEFINE E == t[n] \o hd
  <2>1. \A a, b, d \in Seq(Token) : (a \o b) \o d = a \o (b \o d)
    BY ConcatAssociative
  <2>2. p = E \o rest
    BY <1>1, <1>5, <2>1
  <2>3. \A a, b \in Seq(Token) : a \o b \in Seq(Token)
    BY ConcatProperties
  <2>4. E \in Seq(Token)
    BY <1>1, <1>5, <2>3
  <2>5. End(g, u, n) = E
    BY <1>9 DEF End
  <2> HIDE DEF E
  <2>6. IsPrefix(E, p)
    BY <1>5, <2>2, <2>4, ConcatFacts
  <2>7. n \in DOMAIN g
    BY <1>9 DEF Tree
  <2> QED
    BY <2>2, <2>5, <2>6, <2>7
<1>11. Ways(g, u, U \cup {<<p, n>>}, R, p, n, n)
  BY <1>1, <1>9, <1>10, WaysArrive
<1>12. ~Blank(g[n])
  <2>1. CASE np = <<>>
    <3>1. g = h
      BY <1>3, <2>1, EmptySeq DEF g
    <3> QED
      BY <1>1, <3>1
  <2>2. CASE np # <<>>
    BY <1>4, <1>5, <1>9, <2>2, EmptySeq DEF Blank
  <2> QED
    BY <2>1, <2>2
<1>13. rest = <<>> => g[n].path # <<>>
  BY <1>3, <1>5, <1>9, EmptySeq
<1>14. Static(g[n]) \/ (g[n].type = "param" /\ (rest = <<>> \/ rest[1] = "/"))
  BY <1>7, <1>9 DEF WalksAt, Static
<1>15. StandsAt(g, u, U \cup {<<p, n>>}, R, p, n, rest)
  BY <1>1, <1>5, <1>9, <1>10, <1>11, <1>12, <1>13, <1>14 DEF StandsAt
<1>16. \E V : StandsAt(g, u, V, R, p, n, rest)
  BY <1>15
<1> QED
  BY <1>16 DEF g, rest, i, np

\* What a node's path and children decide.
LEMMA SameShape ==
  ASSUME NEW m, NEW k, m.path = k.path, m.children = k.children, m.wild = k.wild
  PROVE  /\ Kids(m) = Kids(k)
         /\ Blank(m) <=> Blank(k)
         /\ IndexOf(m) = IndexOf(k)
<1>1. Kids(m) = Kids(k)
  BY DEF Kids
<1>2. Blank(m) <=> Blank(k)
  BY DEF Blank
<1>3. IndexOf(m) = IndexOf(k)
  BY DEF IndexOf
<1> QED
  BY <1>1, <1>2, <1>3

\* Memory g is h with a priority of x that has gained a point: the tree and the ways are
\* as they were, but for the order of the children.
Counted(h, t, T, c, R, p, n, o, x, g) ==
  /\ Tree(g, t, c, R, n) /\ Ways(g, t, T, R, p, n, o) /\ DOMAIN g = DOMAIN h
  /\ g[x].priority > 0
  /\ \A z \in DOMAIN h : /\ g[z].type = h[z].type /\ g[z].path = h[z].path
                         /\ g[z].wild = h[z].wild /\ Kids(g[z]) = Kids(h[z])

\* Only a static node has its children in an order.
Ordered(h, x) == \E z \in DOMAIN h : Static(h[z]) /\ \E i \in 1 .. Len(h[z].children) : h[z].children[i] = x

\* A node is rewritten: it keeps its path and its children.
LEMMA RewriteTree ==
  ASSUME NEW h, NEW t, NEW c, NEW R, NEW n, Tree(h, t, c, R, n), NEW x \in DOMAIN h,
         NEW m \in NodeType(DOMAIN h), NEW g, Written(g, h, x, m), NEW S, R \subseteq S,
         Alike(h[x], m), m.type = h[x].type \/ x = Root, m.path = h[x].path,
         m.children = h[x].children, m.wild = h[x].wild, m.indices = h[x].indices,
         m.data = h[x].data \/ (m.data = End(h, t, x) /\ m.data \in S),
         m.priority = h[x].priority \/ ~Ordered(h, x)
  PROVE  Tree(g, t, c, S, n)
<1>1. /\ DOMAIN g = DOMAIN h /\ g[x] = m
      /\ \A z \in DOMAIN h : z # x => g[z] = h[z]
  BY DEF Written
<1>2. \A z \in DOMAIN h : End(g, t, z) = End(h, t, z) /\ Kids(g[z]) = Kids(h[z])
                          /\ (Blank(g[z]) <=> Blank(h[z])) /\ Idx(g, c, z) = Idx(h, c, z)
  <2>1. \A z \in DOMAIN h : /\ g[z].path = h[z].path /\ g[z].children = h[z].children
                            /\ g[z].wild = h[z].wild
    BY <1>1
  <2> QED
    BY <2>1, SameShape DEF End, Idx
<1>3. \A z \in DOMAIN h : z # Root => g[z].type = h[z].type /\ Same(h, t, c, g, t, c, z)
  BY <1>1, <1>2 DEF Same
<1>4. /\ \A z \in DOMAIN h : NodeOK(h, t, c, z) /\ DataOK(h, t, R, z) /\ (Blank(h[z]) => z = n)
      /\ Root \in DOMAIN h /\ n \in DOMAIN h /\ t \in [DOMAIN h -> Seq(Token)] /\ t[Root] = <<>>
      /\ Static(h[Root]) /\ Idx(h, c, Root) = "/" /\ Apart(h)
  BY DEF Tree
<1>5. ASSUME NEW z \in DOMAIN h PROVE NodeOK(g, t, c, z) /\ DataOK(g, t, S, z)
  <2>1. \A y \in Kids(h[z]) : Same(h, t, c, g, t, c, y)
    BY <1>3, KidFacts
  <2>2. Static(h[z]) => \A i \in 1 .. Len(h[z].children) :
                           g[h[z].children[i]].priority = h[h[z].children[i]].priority
    <3> SUFFICES ASSUME Static(h[z]), NEW i \in 1 .. Len(h[z].children)
                 PROVE  g[h[z].children[i]].priority = h[h[z].children[i]].priority
      OBVIOUS
    <3>1. h[z].children[i] \in DOMAIN h
      BY KidFacts DEF Kids
    <3>2. h[z].children[i] = x => m.priority = h[x].priority
      BY DEF Ordered
    <3> QED
      BY <1>1, <3>1, <3>2
  <2>3. /\ g[z] \in NodeType(DOMAIN h) /\ Alike(h[z], g[z])
        /\ g[z].children = h[z].children /\ g[z].wild = h[z].wild /\ g[z].indices = h[z].indices
    BY <1>1, <1>4 DEF NodeOK, Alike
  <2>4. NodeOK(h, t, c, z) /\ DOMAIN h \subseteq DOMAIN g /\ End(g, t, z) = End(h, t, z)
    BY <1>1, <1>2, <1>4
  <2>5. NodeOK(g, t, c, z)
    BY <2>1, <2>2, <2>3, <2>4, NodeFrame
  <2>6. DataOK(g, t, S, z)
    <3>1. DataOK(h, t, R, z)
      BY <1>4
    <3>2. CASE z = x
      BY <1>1, <1>2, <3>1, <3>2 DEF DataOK
    <3>3. CASE z # x
      BY <1>1, <1>2, <3>1, <3>3 DEF DataOK
    <3> QED
      BY <3>2, <3>3
  <2> QED
    BY <2>5, <2>6
<1>6. Static(g[Root]) /\ Idx(g, c, Root) = "/"
  BY <1>1, <1>2, <1>4 DEF Alike, Static
<1>7. Apart(g)
  BY <1>1, <1>2, <1>4 DEF Apart
<1> QED
  BY <1>1, <1>2, <1>4, <1>5, <1>6, <1>7 DEF Tree

\* A point more for a child that has no order among its siblings.
LEMMA CountTree ==
  ASSUME NEW h, NEW t, NEW T, NEW c, NEW R, NEW p, NEW n, NEW o, NEW x \in DOMAIN h,
         Tree(h, t, c, R, n), Ways(h, t, T, R, p, n, o), ~Ordered(h, x)
  PROVE  Counted(h, t, T, c, R, p, n, o, x, Count(h, x))
<1> DEFINE m == [h[x] EXCEPT !.priority = @ + 1]
           g == Count(h, x)
<1>1. Written(g, h, x, m)
  BY PutWritten DEF Count
<1>2. h[x] \in NodeType(DOMAIN h) /\ (h[x].data = NoData \/ (h[x].data = End(h, t, x) /\ h[x].data \in R))
  BY DEF Tree, NodeOK, DataOK
<1>3. /\ m \in NodeType(DOMAIN h) /\ m.priority > 0 /\ m.type = h[x].type /\ m.path = h[x].path
      /\ m.children = h[x].children /\ m.wild = h[x].wild /\ m.indices = h[x].indices
      /\ m.data = h[x].data
  <2> DEFINE k == h[x]
  <2>1. k \in NodeType(DOMAIN h)
    BY <1>2
  <2>2. m = [k EXCEPT !.priority = @ + 1]
    OBVIOUS
  <2> HIDE DEF k, m
  <2>4. k.priority \in Nat
    BY <2>1 DEF NodeType
  <2>5. k.priority + 1 \in Nat /\ k.priority + 1 > 0
    BY <2>4
  <2>6. m \in NodeType(DOMAIN h)
    BY <2>1, <2>2, <2>5 DEF NodeType
  <2>7. /\ m.priority = k.priority + 1 /\ m.type = k.type /\ m.path = k.path
        /\ m.children = k.children /\ m.wild = k.wild /\ m.indices = k.indices
        /\ m.data = k.data
    BY <2>1, <2>2 DEF NodeType
  <2>3. /\ m \in NodeType(DOMAIN h) /\ m.priority > 0 /\ m.type = k.type /\ m.path = k.path
        /\ m.children = k.children /\ m.wild = k.wild /\ m.indices = k.indices
        /\ m.data = k.data
    BY <2>5, <2>6, <2>7
  <2> QED
    BY <2>3 DEF k
<1> HIDE DEF m, g
<1>4. Alike(h[x], m)
  BY <1>3 DEF Alike
<1>5. Tree(g, t, c, R, n)
  BY <1>1, <1>3, <1>4, RewriteTree
<1>6. /\ DOMAIN g = DOMAIN h /\ g[x].priority > 0
      /\ \A z \in DOMAIN h : /\ g[z].type = h[z].type /\ g[z].path = h[z].path
                             /\ g[z].wild = h[z].wild /\ g[z].children = h[z].children
                             /\ g[z].data = h[z].data
  BY <1>1, <1>3 DEF Written
<1>7. \A z \in DOMAIN h : /\ End(g, t, z) = End(h, t, z) /\ g[z].data = h[z].data
                          /\ Kids(g[z]) = Kids(h[z]) /\ (Blank(g[z]) <=> Blank(h[z]))
  BY <1>6, SameShape DEF End
<1>8. Ways(g, t, T, R, p, n, o)
  BY <1>6, <1>7, WaysFrame
<1> QED
  BY <1>5, <1>6, <1>7, <1>8 DEF Counted, g

\* The walk goes on to a child.
LEMMA WalkTo ==
  ASSUME NEW h, NEW t, NEW T, NEW R, NEW p, NEW n, NEW rest, StandsAt(h, t, T, R, p, n, rest),
         rest # <<>>, NEW x \in Kids(h[n]), NEW g, Counted(h, t, T, "/", R, p, n, n, x, g),
         \/ Static(h[x]) /\ rest[1] = IndexOf(h[x])
         \/ /\ h[x].type = "param" /\ rest[1] = h[x].path[1]
            /\ Len(rest) = 1 \/ rest[2] = "/"
  PROVE  WalksAt(g, t, T, R, p, x, rest)
<1>1. /\ Tree(h, t, "/", R, n) /\ <<p, n>> \in T /\ p \in Pattern /\ rest \in Seq(Token)
      /\ p = End(h, t, n) \o rest /\ ~Blank(h[n]) /\ n \in DOMAIN h
  BY DEF StandsAt, Tree
<1>2. x \in DOMAIN h /\ x # n /\ x # Root /\ t[x] = End(h, t, n)
  BY <1>1, KidFacts
<1>3. /\ Tree(g, t, "/", R, n) /\ Ways(g, t, T, R, p, n, n) /\ DOMAIN g = DOMAIN h
      /\ g[x].priority > 0 /\ x \in Kids(g[n]) /\ n \in DOMAIN g
      /\ g[n].path = h[n].path /\ g[n].wild = h[n].wild /\ Kids(g[n]) = Kids(h[n])
      /\ g[x].type = h[x].type /\ g[x].path = h[x].path
  BY <1>1, <1>2 DEF Counted
<1>4. ~Blank(g[n])
  <2>1. g[n] \in NodeType(DOMAIN g) /\ h[n] \in NodeType(DOMAIN h)
    BY <1>1, <1>3 DEF Tree, NodeOK
  <2>2. g[n].children # <<>>
     \/ g[n].wild # <<>>
    BY <1>3, <2>1, EmptySeq DEF Kids, NodeType
  <2> QED
    BY <2>2 DEF Blank
<1>5. Tree(g, t, "/", R, x) /\ ~Blank(g[x])
  BY <1>2, <1>3, <1>4 DEF Tree
<1>6. Ways(g, t, T, R, p, x, n)
  BY <1>1, <1>3 DEF Ways
<1>7. p = t[x] \o rest
  BY <1>1, <1>2
<1>8. \/ Static(g[x]) /\ rest[1] = IndexOf(g[x])
      \/ /\ g[x].type = "param" /\ rest[1] = g[x].path[1]
         /\ Len(rest) = 1 \/ rest[2] = "/"
  BY <1>3 DEF Static, IndexOf
<1>9. Comes(g, x, n)
  BY <1>2, <1>3 DEF Comes
<1> QED
  BY <1>1, <1>3, <1>5, <1>6, <1>7, <1>8, <1>9 DEF WalksAt, Comes

\* The root has no parent.
LEMMA RootUnordered ==
  ASSUME NEW h, NEW t, NEW c, NEW R, NEW n, Tree(h, t, c, R, n)
  PROVE  ~Ordered(h, Root)
BY DEF Tree, Apart, Ordered, Kids

\* Without a blank node the tree does not depend on where one might be.
LEMMA TreeElse ==
  ASSUME NEW h, NEW t, NEW c, NEW R, NEW n, Tree(h, t, c, R, n), ~Blank(h[n]), NEW d, NEW x \in DOMAIN h
  PROVE  Tree(h, t, d, R, x)
<1>1. \A z \in DOMAIN h : /\ NodeOK(h, t, c, z) /\ DataOK(h, t, R, z) /\ ~Blank(h[z])
                          /\ Idx(h, d, z) = Idx(h, c, z)
  BY DEF Tree, Idx
<1>2. ASSUME NEW z \in DOMAIN h PROVE NodeOK(h, t, d, z)
  <2>1. \A y \in Kids(h[z]) : Same(h, t, c, h, t, d, y)
    BY <1>1, KidFacts DEF Same
  <2>2. h[z] \in NodeType(DOMAIN h) /\ Alike(h[z], h[z]) /\ NodeOK(h, t, c, z)
    BY <1>1 DEF NodeOK, Alike
  <2> QED
    BY <2>1, <2>2, NodeFrame
<1>3. Idx(h, d, Root) = "/" /\ Root \in DOMAIN h
  BY <1>1 DEF Tree
<1> QED
  BY <1>1, <1>2, <1>3 DEF Tree

\* A registration begins.
LEMMA RouteAdded ==
  ASSUME NEW h, NEW t, NEW T, NEW R, RestsAt(h, t, T, R), NEW p \in Pattern,
         NEW m, m = [h[Root] EXCEPT !.priority = @ + 1,
                                    !.type = IF Blank(h[Root]) THEN "root" ELSE @],
         NEW g, Written(g, h, Root, m)
  PROVE  IF Blank(h[Root]) THEN \E V : InsertsAt(g, t, V, R, p, Root, p)
         ELSE WalksAt(g, t, T, R, p, Root, p)
<1> DEFINE k == h[Root]
<1>1. /\ Tree(h, t, "/", R, Root) /\ Ways(h, t, T, R, <<>>, Root, Root) /\ Root \in DOMAIN h
      /\ k \in NodeType(DOMAIN h) /\ Static(k) /\ NodeOK(h, t, "/", Root) /\ t[Root] = <<>>
      /\ DataOK(h, t, R, Root) /\ Idx(h, "/", Root) = "/"
  BY DEF RestsAt, Tree, NodeOK
<1>2. m = [k EXCEPT !.priority = @ + 1, !.type = IF Blank(k) THEN "root" ELSE @]
  OBVIOUS
<1>3. p \in Seq(Token) /\ p # <<>> /\ p[1] = "/" /\ <<>> \notin Pattern
  BY PatternTokens
<1> HIDE DEF k
<1>4. /\ k.priority + 1 \in Nat /\ k.priority + 1 > 0
  <2>1. k.priority \in Nat
    BY <1>1 DEF NodeType
  <2> QED
    BY <2>1
<1>5. m \in NodeType(DOMAIN h)
  BY <1>1, <1>2, <1>4 DEF NodeType
<1>6. /\ m.priority = k.priority + 1 /\ m.path = k.path /\ Static(m)
      /\ m.children = k.children /\ m.wild = k.wild /\ m.indices = k.indices
      /\ m.data = k.data
  BY <1>1, <1>2 DEF NodeType, Static
<1>7. Alike(k, m)
  BY <1>1, <1>6 DEF Alike
<1>8. Tree(g, t, "/", R, Root)
  <2>1. Alike(h[Root], m) /\ m.path = h[Root].path
        /\ m.children = h[Root].children /\ m.wild = h[Root].wild /\ m.indices = h[Root].indices
        /\ m.data = h[Root].data
    BY <1>6, <1>7 DEF k
  <2>2. ~Ordered(h, Root)
    BY <1>1, RootUnordered
  <2> QED
    BY <1>1, <1>5, <2>1, <2>2, RewriteTree
<1>9. /\ DOMAIN g = DOMAIN h /\ g[Root] = m
      /\ \A z \in DOMAIN h : /\ g[z].path = h[z].path /\ g[z].children = h[z].children
                             /\ g[z].wild = h[z].wild /\ g[z].data = h[z].data
  BY <1>1, <1>6 DEF Written, k
<1>10. \A z \in DOMAIN h : /\ End(g, t, z) = End(h, t, z) /\ Kids(g[z]) = Kids(h[z])
                           /\ g[z].data = h[z].data /\ (Blank(g[z]) <=> Blank(h[z]))
  BY <1>9, SameShape DEF End
<1>11. Ways(g, t, T, R, <<>>, Root, Root)
  BY <1>1, <1>9, <1>10, WaysFrame
<1>12. \A r, x : <<r, x>> \in T => r \in R /\ x \in DOMAIN g
  BY <1>3, <1>11 DEF Ways, OnWay
<1>13. \A x \in DOMAIN g : Blank(g[x]) \/ \E r \in R \cup {p} : <<r, x>> \in T
  BY <1>11, <1>12 DEF Ways
<1>14. CASE Blank(k)
  <2> DEFINE V == T \cup {<<p, Root>>}
  <2>1. ASSUME NEW r, NEW x, <<r, x>> \in T PROVE OnWay(g, t, V, R, p, Root, r, x)
    <3>1. OnWay(g, t, T, R, <<>>, Root, r, x) /\ r \in Pattern
      BY <1>11, <2>1 DEF Ways, OnWay
    <3>2. r # <<>>
      BY <1>3, <3>1
    <3> QED
      BY <3>1, <3>2 DEF OnWay
  <2>2. OnWay(g, t, V, R, p, Root, p, Root)
    <3>1. End(g, t, Root) = <<>>
      <4>1. m.path = <<>>
        BY <1>6, <1>14 DEF Blank
      <4>2. <<>> \o <<>> = <<>>
        <5>1. \A s \in Seq(Token) : s \o <<>> = s
          BY ConcatEmptySeq
        <5>2. <<>> \in Seq(Token)
          BY EmptySeq
        <5> QED
          BY <5>1, <5>2
      <4> QED
        BY <1>1, <1>9, <4>1, <4>2 DEF End
    <3>2. IsPrefix(<<>>, p)
      <4> DEFINE e == <<>>
      <4>1. e \in Seq(Token) /\ Len(e) = 0 /\ Len(p) \in Nat
        BY <1>3, EmptySeq, LenProperties
      <4> HIDE DEF e
      <4>2. Len(e) <= Len(p) /\ \A i \in 1 .. Len(e) : e[i] = p[i]
        BY <4>1
      <4>3. IsPrefix(e, p)
        BY <1>3, <4>1, <4>2, PrefixFacts
      <4> QED
        BY <4>3 DEF e
    <3> QED
      BY <1>1, <1>9, <3>1, <3>2 DEF OnWay
  <2> HIDE DEF OnWay
  <2>3. Ways(g, t, V, R, p, Root, Root)
    <3>1. \A r, x : <<r, x>> \in V => OnWay(g, t, V, R, p, Root, r, x)
      BY <2>1, <2>2
    <3>2. \A r \in R : <<r, Root>> \in V
      BY <1>1 DEF Ways
    <3> QED
      BY <1>13, <3>1, <3>2 DEF Ways
  <2>4. p = End(g, t, Root) \o p
    <3>1. m.path = <<>>
      BY <1>6, <1>14 DEF Blank
    <3>2. \A s \in Seq(Token) : <<>> \o s = s
      BY ConcatEmptySeq
    <3>3. <<>> \in Seq(Token)
      BY EmptySeq
    <3>4. End(g, t, Root) = <<>>
      BY <1>1, <1>9, <3>1, <3>2, <3>3 DEF End
    <3> QED
      BY <1>3, <3>2, <3>4
  <2>5. Blank(g[Root]) /\ Static(g[Root]) /\ g[Root].wild = <<>> /\ p[1] \in Char
    BY <1>3, <1>6, <1>9, <1>14, TokenAssumption DEF Blank
  <2>6. InsertsAt(g, t, V, R, p, Root, p)
    <3>1. <<p, Root>> \in V /\ Tree(g, t, p[1], R, Root)
      BY <1>3, <1>8
    <3> QED
      BY <1>3, <2>3, <2>4, <2>5, <3>1 DEF InsertsAt
  <2> QED
    BY <1>14, <2>6 DEF k
<1>15. CASE ~Blank(k)
  <2>1. PICK o : o \notin DOMAIN g
    BY NoSetContainsEverything
  <2>2. Ways(g, t, T, R, p, Root, o)
    <3>1. ASSUME NEW r, NEW x, <<r, x>> \in T PROVE OnWay(g, t, T, R, p, o, r, x)
      <4>1. OnWay(g, t, T, R, <<>>, Root, r, x) /\ r \in Pattern /\ r # <<>>
        BY <1>3, <1>11, <3>1 DEF Ways, OnWay
      <4> QED
        BY <4>1 DEF OnWay
    <3>2. \A r \in R : <<r, Root>> \in T
      BY <1>1 DEF Ways
    <3> QED
      BY <1>13, <3>1, <3>2 DEF Ways
  <2>3. Comes(g, Root, o)
    BY <2>1 DEF Comes
  <2>4. p = t[Root] \o p
    <3>1. \A s \in Seq(Token) : <<>> \o s = s
      BY ConcatEmptySeq
    <3> QED
      BY <1>1, <1>3, <3>1
  <2>5. ~Blank(g[Root]) /\ Static(g[Root]) /\ g[Root].priority > 0
    BY <1>1, <1>4, <1>6, <1>9, <1>10, <1>15 DEF k
  <2>6. p[1] = IndexOf(g[Root])
    BY <1>3, <1>8, <2>5 DEF Tree, Idx
  <2> QED
    BY <1>3, <1>8, <1>15, <2>2, <2>3, <2>4, <2>5, <2>6 DEF WalksAt, Comes, k
<1> QED
  BY <1>14, <1>15

\* The path ends at a node without a handler, and gives it one.
LEMMA EndRests ==
  ASSUME NEW h, NEW t, NEW T, NEW R, NEW p, NEW n, StandsAt(h, t, T, R, p, n, <<>>),
         h[n].data = NoData, NEW m, m = [h[n] EXCEPT !.data = p], NEW g, Written(g, h, n, m)
  PROVE  RestsAt(g, t, T, R \cup {p})
<1> DEFINE k == h[n]
<1>1. /\ Tree(h, t, "/", R, n) /\ Ways(h, t, T, R, p, n, n) /\ n \in DOMAIN h /\ <<p, n>> \in T
      /\ p \in Pattern /\ k \in NodeType(DOMAIN h) /\ NodeOK(h, t, "/", n) /\ ~Blank(k)
      /\ k.path # <<>> /\ k.type # "catchAll" /\ p = End(h, t, n) \o <<>>
      /\ Root \in DOMAIN h /\ t[n] \in Seq(Token) /\ k.path \in Seq(Token)
  BY DEF StandsAt, Tree, NodeOK, Static, NodeType
<1>2. m = [k EXCEPT !.data = p]
  OBVIOUS
<1>3. p = End(h, t, n)
  <2>1. \A a, b \in Seq(Token) : a \o b \in Seq(Token)
    BY ConcatProperties
  <2>2. \A s \in Seq(Token) : s \o <<>> = s
    BY ConcatEmptySeq
  <2>3. End(h, t, n) \in Seq(Token)
    BY <1>1, <2>1 DEF End
  <2> QED
    BY <1>1, <2>2, <2>3
<1>4. p \in Seq(Token)
  BY <1>1, PatternTokens
<1> HIDE DEF k
<1>5. m \in NodeType(DOMAIN h)
  BY <1>1, <1>2, <1>4 DEF NodeType
<1>6. /\ m.priority = k.priority /\ m.path = k.path /\ m.type = k.type
      /\ m.children = k.children /\ m.wild = k.wild /\ m.indices = k.indices
      /\ m.data = p
  BY <1>1, <1>2 DEF NodeType
<1>7. Alike(k, m)
  BY <1>1, <1>6 DEF Alike
<1>8. Tree(g, t, "/", R \cup {p}, n)
  <2>1. Alike(h[n], m) /\ m.path = h[n].path /\ m.type = h[n].type /\ m.priority = h[n].priority
        /\ m.children = h[n].children /\ m.wild = h[n].wild /\ m.indices = h[n].indices
        /\ m.data = End(h, t, n) /\ m.data \in R \cup {p}
    BY <1>3, <1>6, <1>7 DEF k
  <2> QED
    BY <1>1, <1>5, <2>1, RewriteTree
<1>9. /\ DOMAIN g = DOMAIN h /\ g[n] = m
      /\ \A z \in DOMAIN h : /\ g[z].path = h[z].path /\ g[z].children = h[z].children
                             /\ g[z].wild = h[z].wild /\ (z # n => g[z].data = h[z].data)
  BY <1>1, <1>6 DEF Written, k
<1>10. \A z \in DOMAIN h : /\ End(g, t, z) = End(h, t, z) /\ Kids(g[z]) = Kids(h[z])
                           /\ (Blank(g[z]) <=> Blank(h[z]))
  BY <1>9, SameShape DEF End
<1>11. Tree(g, t, "/", R \cup {p}, Root)
  BY <1>1, <1>8, <1>9, <1>10, TreeElse DEF k
<1>12. ASSUME NEW r, NEW x, <<r, x>> \in T PROVE OnWay(g, t, T, R \cup {p}, <<>>, Root, r, x)
  <2>1. OnWay(h, t, T, R, p, n, r, x)
    BY <1>1, <1>12 DEF Ways
  <2>2. x \in DOMAIN h
    BY <2>1 DEF OnWay
  <2>3. /\ End(g, t, x) = End(h, t, x) /\ Kids(h[x]) \subseteq Kids(g[x]) /\ x \in DOMAIN g
        /\ h[x].data \in {NoData, g[x].data} /\ R \cup {p} \subseteq (R \cup {p}) \cup {<<>>}
        /\ (r = p /\ x = n => g[x].data = r)
    BY <1>6, <1>9, <1>10, <2>2
  <2> QED
    BY <2>1, <2>3, OnWayFrame
<1>13. \A r \in R \cup {p} : <<r, Root>> \in T
  BY <1>1 DEF Ways
<1>14. \A x \in DOMAIN g : Blank(g[x]) \/ \E r \in R \cup {p} : <<r, x>> \in T
  BY <1>1, <1>9, <1>10 DEF Ways
<1>15. Ways(g, t, T, R \cup {p}, <<>>, Root, Root)
  <2> HIDE DEF OnWay
  <2>1. \A x \in DOMAIN g : Blank(g[x]) \/ \E r \in (R \cup {p}) \cup {<<>>} : <<r, x>> \in T
    BY <1>14
  <2> QED
    BY <1>12, <1>13, <2>1 DEF Ways
<1> QED
  BY <1>11, <1>15 DEF RestsAt

\* A child's point more moves it and its index forward, and the children stay in order.
LEMMA IncrementTree ==
  ASSUME NEW h, NEW t, NEW T, NEW c, NEW R, NEW p, NEW b, NEW o,
         Tree(h, t, c, R, b), Ways(h, t, T, R, p, b, o), NEW n \in DOMAIN h,
         Static(h[n]) \/ h[n].type = "param", Len(h[n].indices) = Len(h[n].children),
         NEW pos \in 1 .. Len(h[n].children), NEW x, x = h[n].children[pos]
  PROVE  Counted(h, t, T, c, R, p, b, o, x, IncrementChildPrio(h, n, pos))
<1> DEFINE m == h[n]
           y == [h[x] EXCEPT !.priority = @ + 1]
           f == Count(h, x)
           new == Place(f, n, pos)
           k == [f[n] EXCEPT !.children = Moved(@, pos, new), !.indices = Moved(@, pos, new)]
           g == Put(f, n, k)
           mc == Moved(m.children, pos, new)
           mi == Moved(m.indices, pos, new)
           L == 1 .. Len(m.children)
           O(i) == Origin(pos, new, i)
<1>1. IncrementChildPrio(h, n, pos) = g
  BY DEF IncrementChildPrio
<1>2. /\ m \in NodeType(DOMAIN h) /\ m.children \in Seq(DOMAIN h) /\ m.indices \in Seq(Char)
      /\ m.wild \in Seq(DOMAIN h) /\ NodeOK(h, t, c, n) /\ Len(m.children) \in Nat
      /\ \A i \in L : m.children[i] \in DOMAIN h
      /\ \A i \in L : m.children[i] \in Kids(m)
  <2>1. m \in NodeType(DOMAIN h) /\ NodeOK(h, t, c, n)
    BY DEF Tree, NodeOK
  <2>2. m.children \in Seq(DOMAIN h) /\ m.indices \in Seq(Char) /\ m.wild \in Seq(DOMAIN h)
    BY <2>1 DEF NodeType
  <2>3. Len(m.children) \in Nat /\ \A i \in L : m.children[i] \in DOMAIN h
    BY <2>2, LenProperties, ElementOfSeq
  <2>4. \A i \in L : m.children[i] \in Kids(m)
    BY DEF Kids
  <2> QED
    BY <2>1, <2>2, <2>3, <2>4
<1>3. x \in DOMAIN h /\ x # n /\ x \in Kids(m) /\ \A z \in DOMAIN h : x \in Kids(h[z]) => z = n
  BY <1>2, KidFacts
<1>4. Written(f, h, x, y)
  BY PutWritten DEF Count
<1>5. DOMAIN f = DOMAIN h /\ f[n] = m /\ f[x] = y /\ \A z \in DOMAIN h : z # x => f[z] = h[z]
  BY <1>3, <1>4 DEF Written
<1>6. k = [m EXCEPT !.children = mc, !.indices = mi]
  BY <1>5
<1>7. Written(g, f, n, k)
  BY PutWritten
<1>8. \A z \in DOMAIN h : h[z] \in NodeType(DOMAIN h) /\ h[z].priority \in Nat
  BY DEF Tree, NodeOK, NodeType
<1> DEFINE q == h[x]
<1>9. y = [q EXCEPT !.priority = @ + 1] /\ q \in NodeType(DOMAIN h) /\ q.priority + 1 \in Nat
      /\ q.priority + 1 > 0 /\ q.priority \in Nat
  BY <1>3, <1>8
<1> HIDE DEF m, y, f, new, k, g, mc, mi, O, q
<1>10. /\ y.priority = q.priority + 1 /\ y.path = q.path /\ y.type = q.type
       /\ y.children = q.children /\ y.wild = q.wild /\ y.indices = q.indices /\ y.data = q.data
       /\ y \in NodeType(DOMAIN h)
  BY <1>9 DEF NodeType
<1>11. DOMAIN g = DOMAIN h /\ g[n] = k /\ g[x] = y
       /\ \A z \in DOMAIN h : z # x /\ z # n => g[z] = h[z]
  BY <1>3, <1>5, <1>7 DEF Written
<1>12. /\ new \in 1 .. pos
       /\ \A j \in new .. pos - 1 : f[m.children[j]].priority < f[m.children[pos]].priority
       /\ new > 1 => f[m.children[new - 1]].priority >= f[m.children[pos]].priority
  <2>1. pos \in Nat \ {0}
    BY <1>2
  <2>2. \A i \in 1 .. pos : f[f[n].children[i]].priority \in Nat
    <3> SUFFICES ASSUME NEW i \in 1 .. pos PROVE f[m.children[i]].priority \in Nat
      BY <1>5
    <3>1. i \in L
      BY <1>2 DEF m
    <3>2. m.children[i] \in DOMAIN h
      BY <1>2, <3>1
    <3>3. CASE m.children[i] = x
      BY <1>5, <1>9, <1>10, <3>3
    <3>4. CASE m.children[i] # x
      BY <1>5, <1>8, <3>2, <3>4
    <3> QED
      BY <3>3, <3>4
  <2> QED
    BY <1>5, <2>1, <2>2, PlaceFacts DEF new
<1>13. /\ mc \in Seq(DOMAIN h) /\ Len(mc) = Len(m.children)
       /\ \A i \in L : mc[i] = m.children[O(i)]
       /\ mi \in Seq(Char) /\ Len(mi) = Len(m.children)
       /\ \A i \in L : mi[i] = m.indices[O(i)]
       /\ \A i \in L : O(i) \in L
       /\ \A i, j \in L : O(i) = O(j) => i = j
       /\ \A l \in L : \E i \in L : O(i) = l
  <2>1. /\ pos \in 1 .. Len(m.children) /\ Len(m.indices) = Len(m.children)
        /\ pos \in 1 .. Len(m.indices)
    BY DEF m
  <2>2. /\ mc \in Seq(DOMAIN h) /\ Len(mc) = Len(m.children)
        /\ \A i \in L : mc[i] = m.children[O(i)]
        /\ \A i \in L : O(i) \in L
        /\ \A i, j \in L : O(i) = O(j) => i = j
        /\ \A l \in L : \E i \in L : O(i) = l
    <3>1. mc \in Seq(DOMAIN h) /\ Forward(m.children, pos, new, mc)
      BY <1>2, <1>12, <2>1, MovedFacts DEF mc
    <3> QED
      BY <3>1 DEF Forward, O
  <2>3. /\ mi \in Seq(Char) /\ Len(mi) = Len(m.indices)
        /\ \A i \in 1 .. Len(m.indices) : mi[i] = m.indices[O(i)]
    <3>1. mi \in Seq(Char) /\ Forward(m.indices, pos, new, mi)
      BY <1>2, <1>12, <2>1, MovedFacts DEF mi
    <3> QED
      BY <3>1 DEF Forward, O
  <2> QED
    BY <2>1, <2>2, <2>3
<1>14. /\ k.priority = m.priority /\ k.path = m.path /\ k.type = m.type
       /\ k.children = mc /\ k.wild = m.wild /\ k.indices = mi /\ k.data = m.data
       /\ k \in NodeType(DOMAIN h)
  BY <1>2, <1>6, <1>13 DEF NodeType
<1>15. Kids(k) = Kids(m)
  <2>2. \A i \in L : \E j \in L : mc[i] = m.children[j]
    BY <1>13
  <2>3. \A j \in L : \E i \in L : mc[i] = m.children[j]
    <3> SUFFICES ASSUME NEW j \in L PROVE \E i \in L : mc[i] = m.children[j]
      OBVIOUS
    <3>1. PICK i \in L : O(i) = j
      BY <1>13
    <3>2. mc[i] = m.children[j]
      BY <1>13, <3>1
    <3> QED
      BY <3>2
  <2>1. {mc[i] : i \in 1 .. Len(mc)} = {m.children[i] : i \in L}
    <3>1. Len(mc) = Len(m.children)
      BY <1>13
    <3>2. \A v : v \in {mc[i] : i \in 1 .. Len(mc)} <=> \E i \in L : v = mc[i]
      BY <3>1
    <3>3. \A v : v \in {m.children[i] : i \in L} <=> \E i \in L : v = m.children[i]
      OBVIOUS
    <3>4. \A v : (\E i \in L : v = mc[i]) <=> \E i \in L : v = m.children[i]
      BY <2>2, <2>3
    <3> QED
      BY <3>2, <3>3, <3>4
  <2> QED
    BY <1>14, <2>1 DEF Kids
<1>16. mc # <<>> /\ m.children # <<>>
  BY <1>2, <1>13, EmptySeq DEF m
<1>17. \A z \in DOMAIN h : /\ g[z].type = h[z].type /\ g[z].path = h[z].path
                           /\ g[z].wild = h[z].wild /\ Kids(g[z]) = Kids(h[z])
                           /\ g[z].data = h[z].data /\ (Blank(g[z]) <=> Blank(h[z]))
                           /\ End(g, t, z) = End(h, t, z)
  <2> SUFFICES ASSUME NEW z \in DOMAIN h
               PROVE  /\ g[z].type = h[z].type /\ g[z].path = h[z].path
                      /\ g[z].wild = h[z].wild /\ Kids(g[z]) = Kids(h[z])
                      /\ g[z].data = h[z].data /\ (Blank(g[z]) <=> Blank(h[z]))
                      /\ End(g, t, z) = End(h, t, z)
    OBVIOUS
  <2>1. CASE z = x
    BY <1>10, <1>11, <2>1, SameShape DEF q, End
  <2>2. CASE z = n
    BY <1>11, <1>14, <1>15, <1>16, <2>2 DEF m, End, Blank
  <2>3. CASE z # x /\ z # n
    BY <1>11, <2>3 DEF End
  <2> QED
    BY <2>1, <2>2, <2>3
<1>18. \A z \in DOMAIN h : Same(h, t, c, g, t, c, z)
  BY <1>17 DEF Same, Idx, IndexOf
<1>19. \A z \in DOMAIN h : z # x => g[z].priority = h[z].priority
  BY <1>11, <1>14 DEF m
<1>20. ASSUME NEW z \in DOMAIN h, z # n PROVE NodeOK(g, t, c, z)
  <2>1. \A j \in 1 .. Len(h[z].children) : h[z].children[j] \in Kids(h[z])
    BY DEF Kids
  <2>2. \A j \in 1 .. Len(h[z].children) : h[z].children[j] \in DOMAIN h /\ h[z].children[j] # x
    BY <1>3, <1>20, <2>1, KidFacts
  <2>3. \A j \in 1 .. Len(h[z].children) : g[h[z].children[j]].priority = h[h[z].children[j]].priority
    BY <1>19, <2>2
  <2>4. \A w \in Kids(h[z]) : Same(h, t, c, g, t, c, w)
    BY <1>18, KidFacts
  <2>5. /\ NodeOK(h, t, c, z) /\ DOMAIN h \subseteq DOMAIN g /\ End(g, t, z) = End(h, t, z)
        /\ h[z] \in NodeType(DOMAIN h)
    BY <1>8, <1>11, <1>17 DEF Tree
  <2>6. /\ g[z].children = h[z].children /\ g[z].wild = h[z].wild /\ g[z].indices = h[z].indices
        /\ g[z] \in NodeType(DOMAIN h)
    BY <1>8, <1>10, <1>11, <1>20 DEF q
  <2>7. Alike(h[z], g[z])
    BY <1>17 DEF Alike
  <2> QED
    BY <2>3, <2>4, <2>5, <2>6, <2>7, NodeFrame
<1>21. NodeOK(g, t, c, n)
  <2>1. /\ ChildrenOK(h, t, n) /\ WildOK(h, t, n) /\ IndicesOK(h, c, n)
        /\ StaticOK(h, n) /\ ParamOK(h, c, n) /\ CatchAllOK(h, n)
    BY <1>2 DEF NodeOK
  <2>2. \A i \in L : /\ mc[i] \in DOMAIN h /\ t[mc[i]] = End(h, t, n) /\ h[mc[i]].type = "static"
    <3>1. \A i \in L : t[m.children[i]] = End(h, t, n) /\ h[m.children[i]].type = "static"
      BY <2>1 DEF ChildrenOK, m, Static
    <3> SUFFICES ASSUME NEW i \in L
                 PROVE  mc[i] \in DOMAIN h /\ t[mc[i]] = End(h, t, n) /\ h[mc[i]].type = "static"
      OBVIOUS
    <3>2. O(i) \in L /\ mc[i] = m.children[O(i)]
      BY <1>13
    <3> QED
      BY <1>2, <3>1, <3>2
  <2>3. ChildrenOK(g, t, n)
    <3>1. k.type # "catchAll" /\ Len(k.children) = Len(m.children)
      BY <1>13, <1>14 DEF m, Static
    <3>2. \A i \in L : t[mc[i]] = End(g, t, n) /\ g[mc[i]].type = "static"
      BY <1>17, <2>2
    <3> QED
      BY <1>11, <1>14, <3>1, <3>2 DEF ChildrenOK
  <2>4. WildOK(g, t, n)
    <3>1. /\ Len(m.wild) <= 1
          /\ \A i \in 1 .. Len(m.wild) :
               /\ m.wild[i] \in DOMAIN h /\ t[m.wild[i]] = End(h, t, n) /\ h[m.wild[i]].type = "param"
      <4>1. \A i \in 1 .. Len(m.wild) : m.wild[i] \in DOMAIN h
        BY <1>2, ElementOfSeq
      <4> QED
        BY <1>16, <2>1, <4>1 DEF WildOK, m
    <3> QED
      BY <1>11, <1>14, <1>17, <3>1 DEF WildOK
  <2>5. \A i \in L : Idx(g, c, mc[i]) = Idx(h, c, m.children[O(i)])
    BY <1>13, <1>18, <2>2 DEF Same
  <2>6. IndicesOK(g, c, n)
    <3> SUFFICES ASSUME Static(k) PROVE IndicesOK(g, c, n)
      BY <1>11 DEF IndicesOK
    <3>1. /\ \A i \in L : m.indices[i] = Idx(h, c, m.children[i])
          /\ \A i, j \in L : m.indices[i] = m.indices[j] => i = j
          /\ \A i, j \in L : i <= j => h[m.children[i]].priority >= h[m.children[j]].priority
      BY <1>14, <2>1 DEF IndicesOK, m, Static
    <3>2. \A i \in L : mi[i] = Idx(g, c, mc[i])
      BY <1>13, <2>5, <3>1
    <3>3. \A i, j \in L : mi[i] = mi[j] => i = j
      <4> SUFFICES ASSUME NEW i \in L, NEW j \in L, mi[i] = mi[j] PROVE i = j
        OBVIOUS
      <4>1. O(i) \in L /\ O(j) \in L /\ m.indices[O(i)] = m.indices[O(j)]
        BY <1>13
      <4>2. O(i) = O(j)
        BY <3>1, <4>1
      <4> QED
        BY <1>13, <4>2
    <3> DEFINE P(i) == h[m.children[i]].priority
               Q(i) == IF i = pos THEN P(pos) + 1 ELSE P(i)
    <3>4. \A i \in L : f[m.children[i]].priority = Q(i) /\ g[m.children[i]].priority = Q(i)
      <4> SUFFICES ASSUME NEW i \in L
                   PROVE  f[m.children[i]].priority = Q(i) /\ g[m.children[i]].priority = Q(i)
        OBVIOUS
      <4>1. CASE i = pos
        BY <1>5, <1>10, <1>11, <4>1 DEF q, m
      <4>2. CASE i # pos
        <5>1. m.children[i] # x
          BY <3>1, <4>2 DEF m
        <5> QED
          BY <1>2, <1>5, <1>19, <4>2, <5>1
      <4> QED
        BY <4>1, <4>2
    <3>5. \A i \in L : P(i) \in Nat
      BY <1>2, <1>8
    <3>6. \A i, j \in L : i <= j => P(i) >= P(j)
      BY <3>1
    <3>7. pos \in L /\ L \subseteq Nat
      BY DEF m
    <3>8. /\ \A j \in new .. pos - 1 : P(j) < P(pos) + 1
          /\ new > 1 => P(new - 1) >= P(pos) + 1
      <4>1. \A j \in new .. pos - 1 : j \in L /\ j # pos
        BY <1>2, <1>12, <3>7
      <4>2. new > 1 => new - 1 \in L /\ new - 1 # pos
        BY <1>2, <1>12, <3>7
      <4> QED
        BY <1>12, <3>4, <3>7, <4>1, <4>2
    <3>9. \A i, j \in L : i <= j => Q(O(i)) >= Q(O(j))
      <4> HIDE DEF P
      <4> SUFFICES ASSUME NEW i \in L, NEW j \in L, i <= j PROVE Q(O(i)) >= Q(O(j))
        OBVIOUS
      <4> DEFINE a == P(O(i))
                 d == P(O(j))
      <4>1. O(i) \in L /\ O(j) \in L /\ new \in L
        BY <1>2, <1>12, <1>13, <3>7
      <4>2. CASE i = new
        BY <1>2, <1>12, <3>5, <3>6, <3>7, <3>8, <4>1, <4>2 DEF O, Origin
      <4>3. CASE j = new /\ i # new
        <5>1. i <= new - 1 /\ new - 1 \in L /\ O(i) = i /\ i # pos /\ O(j) = pos
          BY <1>2, <1>12, <3>7, <4>1, <4>3 DEF O, Origin
        <5> QED
          BY <1>2, <1>12, <3>5, <3>6, <3>7, <3>8, <4>1, <5>1
      <4>4. CASE i # new /\ j # new
        <5>1. O(i) <= O(j) /\ O(i) # pos /\ O(j) # pos
          BY <1>2, <1>12, <3>7, <4>1, <4>4 DEF O, Origin
        <5> QED
          BY <3>6, <4>1, <5>1
      <4> QED
        BY <4>2, <4>3, <4>4
    <3>10. \A i, j \in L : i <= j => g[mc[i]].priority >= g[mc[j]].priority
      <4>1. \A i \in L : g[mc[i]].priority = Q(O(i))
        BY <1>13, <3>4
      <4> QED
        BY <3>9, <4>1
    <3> HIDE DEF P, Q
    <3> QED
      BY <1>11, <1>13, <1>14, <3>2, <3>3, <3>10 DEF IndicesOK
  <2>7. StaticOK(g, n)
    BY <1>11, <1>14, <1>16, <2>1 DEF StaticOK, m, Static
  <2>8. ParamOK(g, c, n)
    BY <1>11, <1>13, <1>14, <1>16, <2>1, <2>5 DEF ParamOK, m
  <2>9. CatchAllOK(g, n)
    BY <1>11, <1>14 DEF CatchAllOK, m, Static
  <2> QED
    BY <1>11, <1>14, <2>3, <2>4, <2>6, <2>7, <2>8, <2>9 DEF NodeOK
<1>22. Tree(g, t, c, R, b)
  <2>1. \A z \in DOMAIN g : NodeOK(g, t, c, z) /\ DataOK(g, t, R, z) /\ (Blank(g[z]) => z = b)
    BY <1>11, <1>17, <1>20, <1>21 DEF Tree, DataOK
  <2>2. Static(g[Root]) /\ Idx(g, c, Root) = "/"
    BY <1>17, <1>18 DEF Tree, Static, Same
  <2>3. Apart(g)
    BY <1>11, <1>17 DEF Tree, Apart
  <2> QED
    BY <1>11, <2>1, <2>2, <2>3 DEF Tree
<1>23. Ways(g, t, T, R, p, b, o)
  BY <1>11, <1>17, WaysFrame
<1>24. g[x].priority > 0
  BY <1>9, <1>10, <1>11
<1>25. Counted(h, t, T, c, R, p, b, o, x, g)
  BY <1>11, <1>17, <1>22, <1>23, <1>24 DEF Counted
<1> QED
  BY <1>1, <1>25

\* Memory g is h with n rewritten, and below it the nodes that go on with it: the one in X,
\* if any, and below that the one in Y, if any.
Grows(h, t, n, g, u, X, Y) ==
  /\ \A x, y \in X : x = y
  /\ \A x, y \in Y : x = y
  /\ X \cap Y = {} /\ (X \cup Y) \cap DOMAIN h = {} /\ (X = {} => Y = {})
  /\ DOMAIN g = DOMAIN h \cup X \cup Y /\ u \in [DOMAIN g -> Seq(Token)]
  /\ \A z \in DOMAIN h : u[z] = t[z] /\ (z # n => g[z] = h[z])
  /\ Kids(g[n]) = Kids(h[n]) \cup X
  /\ \A x \in X : Kids(g[x]) = Y
  /\ \A y \in Y : Kids(g[y]) = {}
  /\ g[n].priority = h[n].priority

\* What a growing tree needs: the nodes written are right, and only b may be blank.
TreeGrows(h, t, c, R, n, g, u, d, S, X, Y, b) ==
  /\ Tree(h, t, c, R, n) /\ Grows(h, t, n, g, u, X, Y) /\ R \subseteq S
  /\ Same(h, t, c, g, u, d, n) /\ b \in DOMAIN g
  /\ \A z \in {n} \cup X \cup Y :
       NodeOK(g, u, d, z) /\ DataOK(g, u, S, z) /\ (Blank(g[z]) => z = b)

\* And its ways: that of p goes on through the nodes that are written.
WaysGrow(h, t, T, c, R, p, n, g, u, U, S, q, b, e, X, Y) ==
  /\ Tree(h, t, c, R, n) /\ Ways(h, t, T, R, p, n, n) /\ <<p, n>> \in T
  /\ Grows(h, t, n, g, u, X, Y) /\ R \cup {p} \subseteq S \cup {q} /\ S \subseteq R \cup {p}
  /\ p \in S \/ p = q
  /\ b = Root \/ q = p
  /\ Blank(h[n]) \/ (End(g, u, n) = End(h, t, n) /\ h[n].data \in {NoData, g[n].data})
  /\ U = T \cup {<<p, z>> : z \in X \cup Y}
  /\ \A z \in {n} \cup X \cup Y : OnWay(g, u, U, S, q, e, p, z)

\* A tree that has grown below n is a tree.
LEMMA GrowTree ==
  ASSUME NEW h, NEW t, NEW c, NEW R, NEW n, NEW g, NEW u, NEW d, NEW S, NEW X, NEW Y, NEW b,
         TreeGrows(h, t, c, R, n, g, u, d, S, X, Y, b)
  PROVE  Tree(g, u, d, S, b)
<1>0. /\ Tree(h, t, c, R, n) /\ Grows(h, t, n, g, u, X, Y) /\ R \subseteq S
      /\ Same(h, t, c, g, u, d, n) /\ b \in DOMAIN g
      /\ \A z \in {n} \cup X \cup Y :
           NodeOK(g, u, d, z) /\ DataOK(g, u, S, z) /\ (Blank(g[z]) => z = b)
  BY DEF TreeGrows
<1>1. /\ n \in DOMAIN h /\ Root \in DOMAIN h /\ t[Root] = <<>>
      /\ Static(h[Root]) /\ Idx(h, c, Root) = "/" /\ Apart(h)
      /\ \A z \in DOMAIN h : NodeOK(h, t, c, z) /\ DataOK(h, t, R, z) /\ (Blank(h[z]) => z = n)
  BY <1>0 DEF Tree
<1>2. /\ DOMAIN g = DOMAIN h \cup X \cup Y /\ u \in [DOMAIN g -> Seq(Token)]
      /\ \A z \in DOMAIN h : u[z] = t[z] /\ (z # n => g[z] = h[z])
      /\ g[n].priority = h[n].priority
  BY <1>0 DEF Grows
<1>3. \A z \in DOMAIN h : Same(h, t, c, g, u, d, z)
  <2> SUFFICES ASSUME NEW z \in DOMAIN h, z # n PROVE Same(h, t, c, g, u, d, z)
    BY <1>0
  <2>1. ~Blank(h[z]) /\ g[z] = h[z] /\ u[z] = t[z]
    BY <1>1, <1>2
  <2> QED
    BY <2>1 DEF Same, Idx
<1>4. ASSUME NEW z \in DOMAIN h, z # n
      PROVE  NodeOK(g, u, d, z) /\ DataOK(g, u, S, z) /\ ~Blank(g[z])
  <2>1. /\ g[z] = h[z] /\ End(g, u, z) = End(h, t, z)
    BY <1>2, <1>4 DEF End
  <2>2. \A y \in Kids(h[z]) : Same(h, t, c, g, u, d, y) /\ g[y].priority = h[y].priority
    BY <1>0, <1>2, <1>3, KidFacts
  <2>3. \A i \in 1 .. Len(h[z].children) : h[z].children[i] \in Kids(h[z])
    BY DEF Kids
  <2>4. /\ NodeOK(h, t, c, z) /\ DOMAIN h \subseteq DOMAIN g /\ g[z] \in NodeType(DOMAIN h)
        /\ Alike(h[z], g[z])
    BY <1>1, <1>2, <2>1 DEF NodeOK, Alike
  <2>5. NodeOK(g, u, d, z)
    BY <2>1, <2>2, <2>3, <2>4, NodeFrame
  <2>6. DataOK(g, u, S, z)
    <3>1. DataOK(h, t, R, z)
      BY <1>1
    <3> QED
      BY <1>0, <2>1, <3>1 DEF DataOK
  <2> QED
    BY <1>1, <1>4, <2>1, <2>5, <2>6
<1>5. \A z \in DOMAIN g : NodeOK(g, u, d, z) /\ DataOK(g, u, S, z) /\ (Blank(g[z]) => z = b)
  BY <1>0, <1>2, <1>4
<1>6. Static(g[Root]) /\ Idx(g, d, Root) = "/" /\ u[Root] = <<>> /\ Root \in DOMAIN g
  BY <1>1, <1>2, <1>3 DEF Same, Static
<1>7. Apart(g)
  <2>1. \A z \in DOMAIN h : \A y \in Kids(h[z]) : y \in DOMAIN h /\ y # Root
    BY <1>0, KidFacts
  <2>2. /\ \A x, y \in X : x = y
        /\ \A x, y \in Y : x = y
        /\ X \cap Y = {} /\ (X \cup Y) \cap DOMAIN h = {}
        /\ Kids(g[n]) = Kids(h[n]) \cup X
        /\ \A x \in X : Kids(g[x]) = Y
        /\ \A y \in Y : Kids(g[y]) = {}
        /\ \A z \in DOMAIN h : z # n => Kids(g[z]) = Kids(h[z])
    BY <1>0 DEF Grows
  <2>3. \A z \in DOMAIN g : Root \notin Kids(g[z])
    BY <1>1, <1>2, <2>1, <2>2
  <2>4. ASSUME NEW z \in DOMAIN g, NEW w \in DOMAIN g, z # w, NEW v \in Kids(g[z]), v \in Kids(g[w])
        PROVE  FALSE
    <3>1. CASE v \in DOMAIN h
      <4>1. z \in DOMAIN h /\ v \in Kids(h[z])
        BY <1>2, <2>2, <2>4, <3>1
      <4>2. w \in DOMAIN h /\ v \in Kids(h[w])
        BY <1>2, <2>2, <2>4, <3>1
      <4> QED
        BY <1>1, <2>4, <4>1, <4>2 DEF Apart
    <3>2. CASE v \in X
      <4>1. z = n
        BY <1>2, <2>1, <2>2, <2>4, <3>2
      <4>2. w = n
        BY <1>2, <2>1, <2>2, <2>4, <3>2
      <4> QED
        BY <2>4, <4>1, <4>2
    <3>3. CASE v \notin DOMAIN h /\ v \notin X
      <4>1. z \in X
        BY <1>1, <1>2, <2>1, <2>2, <2>4, <3>3
      <4>2. w \in X
        BY <1>1, <1>2, <2>1, <2>2, <2>4, <3>3
      <4> QED
        BY <2>2, <2>4, <4>1, <4>2
    <3> QED
      BY <3>1, <3>2, <3>3
  <2> QED
    BY <2>3, <2>4 DEF Apart
<1> QED
  BY <1>0, <1>2, <1>5, <1>6, <1>7 DEF Tree

\* The ways down it are as they were, and one goes on into what has grown.
LEMMA GrowWays ==
  ASSUME NEW h, NEW t, NEW T, NEW c, NEW R, NEW p, NEW n, NEW g, NEW u, NEW U, NEW S, NEW q,
         NEW b, NEW e, NEW X, NEW Y, WaysGrow(h, t, T, c, R, p, n, g, u, U, S, q, b, e, X, Y)
  PROVE  Ways(g, u, U, S, q, b, e)
<1>0. /\ Tree(h, t, c, R, n) /\ Ways(h, t, T, R, p, n, n) /\ <<p, n>> \in T
      /\ Grows(h, t, n, g, u, X, Y) /\ R \cup {p} \subseteq S \cup {q} /\ S \subseteq R \cup {p}
      /\ p \in S \/ p = q
      /\ b = Root \/ q = p
      /\ Blank(h[n]) \/ (End(g, u, n) = End(h, t, n) /\ h[n].data \in {NoData, g[n].data})
      /\ U = T \cup {<<p, z>> : z \in X \cup Y}
      /\ \A z \in {n} \cup X \cup Y : OnWay(g, u, U, S, q, e, p, z)
  BY DEF WaysGrow
<1>1. /\ DOMAIN g = DOMAIN h \cup X \cup Y /\ n \in DOMAIN h
      /\ \A z \in DOMAIN h : u[z] = t[z] /\ (z # n => g[z] = h[z])
      /\ Kids(g[n]) = Kids(h[n]) \cup X /\ T \subseteq U
  BY <1>0 DEF Grows, Tree
<1>2. ASSUME NEW r, NEW x, <<r, x>> \in T PROVE OnWay(g, u, U, S, q, e, r, x)
  <2>1. OnWay(h, t, T, R, p, n, r, x)
    BY <1>0, <1>2 DEF Ways
  <2>2. x \in DOMAIN h
    BY <2>1 DEF OnWay
  <2>3. CASE r = p /\ x = n
    BY <1>0, <2>3
  <2>4. CASE x # n
    <3>1. /\ x \in DOMAIN g /\ End(g, u, x) = End(h, t, x) /\ h[x].data \in {NoData, g[x].data}
          /\ Kids(h[x]) \subseteq Kids(g[x]) /\ ~(r = p /\ x = n)
      BY <1>1, <2>2, <2>4 DEF End
    <3> HIDE DEF OnWay
    <3> QED
      BY <1>0, <1>1, <2>1, <3>1, OnWayFrame
  <2>5. CASE r # p /\ x = n
    <3>1. ~Blank(h[n])
      <4> SUFFICES ASSUME Blank(h[n]) PROVE FALSE
        OBVIOUS
      <4>1. NodeOK(h, t, c, n) /\ h[n] \in NodeType(DOMAIN h)
        BY <1>0, <1>1 DEF Tree, NodeOK
      <4>2. Kids(h[n]) = {}
        BY EmptySeq DEF Blank, Kids
      <4>3. r # NoData /\ h[n].data = r
        BY <2>1, <2>5, <4>2, PatternTokens DEF OnWay, NoData
      <4>4. h[n].type \in {"static", "root", "param", "catchAll"} /\ h[n].path = <<>> /\ h[n].children = <<>>
        BY <4>1 DEF NodeType, Blank
      <4>5. h[n].data = NoData
        <5>1. Len(h[n].path) = 0 /\ Len(h[n].children) = 0
          BY <4>4, EmptySeq
        <5>2. Static(h[n]) => h[n].data = NoData
          BY <4>1, <4>4 DEF NodeOK, StaticOK
        <5>3. h[n].type # "param"
          BY <4>1, <5>1 DEF NodeOK, ParamOK
        <5>4. h[n].type = "catchAll" => FALSE
          <6> SUFFICES ASSUME h[n].type = "catchAll" PROVE FALSE
            OBVIOUS
          <6>1. \E w \in CatchAll : h[n].path = <<"/", w>>
            BY <4>1, <5>1 DEF NodeOK, CatchAllOK
          <6> QED
            BY <5>1, <6>1
        <5> QED
          BY <4>4, <5>2, <5>3, <5>4 DEF Static
      <4> QED
        BY <4>3, <4>5
    <3>2. /\ x \in DOMAIN g /\ End(g, u, x) = End(h, t, x) /\ h[x].data \in {NoData, g[x].data}
          /\ Kids(h[x]) \subseteq Kids(g[x]) /\ ~(r = p /\ x = n)
      BY <1>0, <1>1, <2>5, <3>1
    <3> HIDE DEF OnWay
    <3> QED
      BY <1>0, <1>1, <2>1, <3>2, OnWayFrame
  <2> QED
    BY <2>3, <2>4, <2>5
<1>3. \A r, x : <<r, x>> \in U => OnWay(g, u, U, S, q, e, r, x)
  BY <1>0, <1>2
<1>4. <<p, Root>> \in U /\ \A r \in R : <<r, Root>> \in U
  BY <1>0, <1>1 DEF Ways
<1>5. \A x \in DOMAIN g : Blank(g[x]) \/ \E r \in S \cup {q} : <<r, x>> \in U
  <2>1. p \in S \cup {q}
    BY <1>0
  <2>2. \A x \in {n} \cup X \cup Y : <<p, x>> \in U
    BY <1>0
  <2>3. \A x \in DOMAIN h : x # n => Blank(g[x]) \/ \E r \in R \cup {p} : <<r, x>> \in U
    BY <1>0, <1>1 DEF Ways
  <2> QED
    BY <1>0, <1>1, <2>1, <2>2, <2>3
<1> QED
  BY <1>0, <1>3, <1>4, <1>5 DEF Ways

\* A new node has no path, no children and no handler.
Bare(m, D, type, path, prio) ==
  /\ m \in NodeType(D) /\ m.type = type /\ m.path = path /\ m.priority = prio
  /\ m.children = <<>> /\ m.wild = <<>> /\ m.indices = <<>> /\ m.data = NoData
  /\ Kids(m) = {}

\* What Node makes has its type.
LEMMA NewNode ==
  ASSUME NEW type \in {"static", "root", "param", "catchAll"}, NEW path \in Seq(Token), NEW prio \in Nat,
         NEW D
  PROVE  Bare(Node(type, path, prio), D, type, path, prio)
<1> DEFINE m == Node(type, path, prio)
<1>1. <<>> \in Seq(D) /\ <<>> \in Seq(Char) /\ <<>> \in Seq(Token) /\ Len(<<>>) = 0
  BY EmptySeq
<1>2. /\ m.type = type /\ m.path = path /\ m.priority = prio
      /\ m.children = <<>> /\ m.wild = <<>> /\ m.indices = <<>> /\ m.data = NoData
  BY DEF Node
<1>3. m \in NodeType(D)
  BY <1>1 DEF Node, NodeType, NoData
<1> HIDE DEF m
<1>4. Kids(m) = {}
  BY <1>1, <1>2 DEF Kids
<1> QED
  BY <1>2, <1>3, <1>4 DEF m, Bare

\* A node without children.
LEMMA LeafOK ==
  ASSUME NEW g, NEW u, NEW d, NEW z, g[z] \in NodeType(DOMAIN g), Static(g[z]),
         g[z].children = <<>>, g[z].wild = <<>>, g[z].indices = <<>>,
         g[z].path \in Seq(Char), g[z].path = <<>> => g[z].data = NoData
  PROVE  NodeOK(g, u, d, z)
<1>1. Len(<<>>) = 0
  BY EmptySeq
<1>2. ChildrenOK(g, u, z) /\ WildOK(g, u, z) /\ IndicesOK(g, d, z)
  BY <1>1 DEF ChildrenOK, WildOK, IndicesOK
<1>3. StaticOK(g, z) /\ ParamOK(g, d, z) /\ CatchAllOK(g, z)
  BY <1>1 DEF StaticOK, ParamOK, CatchAllOK, Static
<1> QED
  BY <1>2, <1>3 DEF NodeOK

\* No child shares a prefix with the path: a new one is to take it.
LEMMA NewStatic ==
  ASSUME NEW h, NEW t, NEW T, NEW R, NEW p, NEW n, NEW rest, StandsAt(h, t, T, R, p, n, rest),
         rest # <<>>, rest[1] \notin Wildcard,
         ~(h[n].type = "param" /\ rest[1] = "/" /\ Len(h[n].children) = 1),
         ~Contains(h[n].indices, rest[1]),
         ~(h[n].wild # <<>> /\ h[h[n].wild[1]].type = "catchAll"),
         NEW x, x \notin DOMAIN h,
         NEW m, m = [h[n] EXCEPT !.indices = Append(@, rest[1]), !.children = Append(@, x)],
         NEW g, BothWritten(g, h, x, Node("static", <<>>, 0), n, m)
  PROVE  \E u, U : InsertsAt(IncrementChildPrio(g, n, Len(h[n].indices) + 1), u, U, R, p, x, rest)
<1> DEFINE k == h[n]
           c == rest[1]
           v == Node("static", <<>>, 0)
           mc == Append(k.children, x)
           mi == Append(k.indices, c)
           E == End(h, t, n)
           u == Put(t, x, E)
           U == T \cup {<<p, z>> : z \in {x} \cup {}}
           l == Len(k.children)
           f == IncrementChildPrio(g, n, Len(k.indices) + 1)
<1>1. /\ Tree(h, t, "/", R, n) /\ Ways(h, t, T, R, p, n, n) /\ <<p, n>> \in T /\ p \in Pattern
      /\ rest \in Seq(Token) /\ p = E \o rest /\ ~Blank(k) /\ n \in DOMAIN h
      /\ k \in NodeType(DOMAIN h) /\ NodeOK(h, t, "/", n) /\ t \in [DOMAIN h -> Seq(Token)]
      /\ \A z \in DOMAIN h : ~Blank(h[z])
      /\ x # n
  BY DEF StandsAt, Tree, NodeOK
<1>2. Static(k) \/ (k.type = "param" /\ c = "/")
  BY DEF StandsAt
<1>3. c \in Char
  <2>1. Len(rest) # 0
    BY <1>1, EmptySeq
  <2>2. 1 \in 1 .. Len(rest)
    BY <1>1, <2>1, LenProperties
  <2>3. rest[1] \in Token
    BY <1>1, <2>2, ElementOfSeq
  <2> QED
    BY <2>3 DEF Token
<1>4. ~(k.type = "param" /\ c = "/" /\ l = 1) /\ ~Contains(k.indices, c)
      /\ ~(k.wild # <<>> /\ h[k.wild[1]].type = "catchAll")
  OBVIOUS
<1>5. m = [k EXCEPT !.indices = mi, !.children = mc]
  OBVIOUS
<1>6. /\ DOMAIN g = DOMAIN h \cup {x} /\ g[x] = v /\ g[n] = m
      /\ \A z \in DOMAIN h : z # n => g[z] = h[z]
  BY <1>1 DEF BothWritten
<1> HIDE DEF k, c, v
<1>7. /\ k.path \in Seq(Token) /\ k.children \in Seq(DOMAIN h) /\ k.indices \in Seq(Char)
      /\ k.wild \in Seq(DOMAIN h) /\ k.priority \in Nat /\ l \in Nat
      /\ \A i \in 1 .. l : k.children[i] \in DOMAIN h
      /\ \A i \in 1 .. Len(k.wild) : k.wild[i] \in DOMAIN h
  <2>1. /\ k.path \in Seq(Token) /\ k.children \in Seq(DOMAIN h) /\ k.indices \in Seq(Char)
        /\ k.wild \in Seq(DOMAIN h) /\ k.priority \in Nat
    BY <1>1 DEF NodeType
  <2> QED
    BY <2>1, LenProperties, ElementOfSeq
<1> HIDE DEF l
<1>8. Len(k.indices) = l
  <2>1. CASE Static(k)
    BY <1>1, <2>1 DEF NodeOK, IndicesOK, k, l
  <2>2. CASE k.type = "param" /\ c = "/"
    <3>1. l <= 1 /\ (k.children = <<>> => k.indices = <<>>)
      BY <1>1, <2>2 DEF NodeOK, ParamOK, k, l
    <3>2. l = 0
      BY <1>4, <1>7, <2>2, <3>1
    <3>3. k.children = <<>>
      BY <1>7, <3>2, EmptySeq DEF l
    <3> QED
      BY <3>1, <3>2, <3>3, EmptySeq
  <2> QED
    BY <1>2, <2>1, <2>2
<1> HIDE DEF mc, mi
<1>9. /\ mc \in Seq(DOMAIN g) /\ Len(mc) = l + 1 /\ mc[l + 1] = x
      /\ \A i \in 1 .. l : mc[i] = k.children[i]
      /\ mi \in Seq(Char) /\ Len(mi) = l + 1 /\ mi[l + 1] = c
      /\ \A i \in 1 .. l : mi[i] = k.indices[i]
  <2>1. k.children \in Seq(DOMAIN g)
    <3>1. DOMAIN h \subseteq DOMAIN g
      BY <1>6
    <3> QED
      BY <1>7, <3>1, SeqMonotonic
  <2>2. x \in DOMAIN g
    BY <1>6
  <2> QED
    BY <1>3, <1>7, <1>8, <2>1, <2>2, AppendProperties DEF mc, mi, l
<1>10. /\ m.priority = k.priority /\ m.path = k.path /\ m.type = k.type
       /\ m.children = mc /\ m.wild = k.wild /\ m.indices = mi /\ m.data = k.data
       /\ m \in NodeType(DOMAIN g)
  <2>1. k \in NodeType(DOMAIN g)
    <3>1. DOMAIN h \subseteq DOMAIN g
      BY <1>6
    <3>2. \A s : s \in Seq(DOMAIN h) => s \in Seq(DOMAIN g)
      BY <3>1, SeqMonotonic
    <3> QED
      BY <1>1, <3>2 DEF NodeType
  <2>2. m \in NodeType(DOMAIN g)
    BY <1>5, <1>9, <2>1 DEF NodeType
  <2> QED
    BY <1>1, <1>5, <2>2 DEF NodeType
<1>11. /\ v \in NodeType(DOMAIN g) /\ v.type = "static" /\ v.path = <<>> /\ v.priority = 0
       /\ v.children = <<>> /\ v.wild = <<>> /\ v.indices = <<>> /\ v.data = NoData
       /\ Kids(v) = {}
  <2>1. <<>> \in Seq(Token)
    BY EmptySeq
  <2> QED
    BY <2>1, NewNode DEF v, Bare
<1>12. E \in Seq(Token) /\ IsPrefix(E, p) /\ E \o <<>> = E
  <2>1. \A a, b \in Seq(Token) : a \o b \in Seq(Token)
    BY ConcatProperties
  <2>2. E \in Seq(Token)
    <3>1. t[n] \in Seq(Token)
      BY <1>1
    <3> QED
      BY <1>7, <2>1, <3>1 DEF End, k
  <2> HIDE DEF E
  <2> QED
    BY <1>1, <2>2, ConcatFacts, ConcatEmptySeq
<1> HIDE DEF E
<1>13. /\ DOMAIN u = DOMAIN h \cup {x} /\ u[x] = E /\ \A z \in DOMAIN h : u[z] = t[z]
       /\ u \in [DOMAIN g -> Seq(Token)]
  <2>1. Written(u, t, x, E)
    BY PutWritten
  <2>2. u = [z \in DOMAIN u |-> u[z]]
    BY DEF Put
  <2>3. DOMAIN t = DOMAIN h
    BY <1>1
  <2> HIDE DEF u
  <2>4. DOMAIN u = DOMAIN h \cup {x} /\ u[x] = E /\ \A z \in DOMAIN h : u[z] = t[z]
    BY <2>1, <2>3 DEF Written
  <2>5. \A z \in DOMAIN u : u[z] \in Seq(Token)
    BY <1>1, <1>12, <2>4
  <2> QED
    BY <1>6, <2>2, <2>4, <2>5
<1> HIDE DEF u
<1>14. End(g, u, n) = E /\ End(g, u, x) = E
  BY <1>1, <1>6, <1>10, <1>11, <1>12, <1>13 DEF End, E, k
<1>15. Kids(m) = Kids(k) \cup {x}
  <2>1. {mc[i] : i \in 1 .. l + 1} = {k.children[i] : i \in 1 .. l} \cup {x}
    <3>1. \A i \in 1 .. l + 1 : i \in 1 .. l \/ i = l + 1
      BY <1>7
    <3>2. l + 1 \in 1 .. l + 1 /\ 1 .. l \subseteq 1 .. l + 1
      BY <1>7
    <3>3. \A i \in 1 .. l + 1 : mc[i] \in {k.children[j] : j \in 1 .. l} \cup {x}
      BY <1>9, <3>1
    <3>4. \A i \in 1 .. l : \E j \in 1 .. l + 1 : k.children[i] = mc[j]
      BY <1>9, <3>2
    <3>5. \E j \in 1 .. l + 1 : x = mc[j]
      BY <1>9, <3>2
    <3> QED
      BY <3>3, <3>4, <3>5
  <2> QED
    BY <1>9, <1>10, <2>1, SMTT(30) DEF Kids, l
<1>16. Grows(h, t, n, g, u, {x}, {})
  BY <1>1, <1>6, <1>10, <1>11, <1>13, <1>15 DEF Grows, k
<1>17. mc # <<>>
  BY <1>7, <1>9, EmptySeq
<1>18. \A z \in DOMAIN h : Same(h, t, "/", g, u, c, z)
  <2> SUFFICES ASSUME NEW z \in DOMAIN h PROVE Same(h, t, "/", g, u, c, z)
    OBVIOUS
  <2>1. ~Blank(h[z]) /\ u[z] = t[z]
    BY <1>1, <1>13
  <2>2. CASE z # n
    BY <1>6, <2>1, <2>2 DEF Same, Idx
  <2>3. CASE z = n
    <3>1. ~Blank(m) /\ IndexOf(m) = IndexOf(k)
      BY <1>10, <1>17 DEF Blank, IndexOf
    <3> QED
      BY <1>6, <1>10, <2>1, <2>3, <3>1 DEF Same, Idx, k
  <2> QED
    BY <2>2, <2>3
<1>19. Idx(g, c, x) = c /\ Blank(g[x])
  BY <1>6, <1>11 DEF Idx, Blank
<1>20. \A z \in {n} \cup {x} \cup {} : NodeOK(g, u, c, z) /\ DataOK(g, u, R, z) /\ (Blank(g[z]) => z = x)
  <2>1. NodeOK(g, u, c, x) /\ DataOK(g, u, R, x)
    <3>1. <<>> \in Seq(Char)
      BY EmptySeq
    <3> QED
      BY <1>6, <1>11, <3>1, LeafOK DEF DataOK, Static
  <2>2. NodeOK(g, u, c, n)
    <3>1. /\ ChildrenOK(h, t, n) /\ WildOK(h, t, n) /\ IndicesOK(h, "/", n)
          /\ StaticOK(h, n) /\ ParamOK(h, "/", n)
      BY <1>1 DEF NodeOK
    <3>2. ChildrenOK(g, u, n)
      <4>1. \A i \in 1 .. l : u[mc[i]] = E /\ g[mc[i]].type = "static"
        <5>1. \A i \in 1 .. l : t[k.children[i]] = E /\ h[k.children[i]].type = "static"
          BY <1>2, <3>1 DEF ChildrenOK, k, Static, E, l
        <5> SUFFICES ASSUME NEW i \in 1 .. l PROVE u[mc[i]] = E /\ g[mc[i]].type = "static"
          OBVIOUS
        <5>2. mc[i] = k.children[i] /\ mc[i] \in DOMAIN h
          BY <1>7, <1>9
        <5>3. Same(h, t, "/", g, u, c, mc[i])
          BY <1>18, <5>2
        <5> QED
          BY <5>1, <5>2, <5>3 DEF Same
      <4>2. \A i \in 1 .. l + 1 : u[mc[i]] = E /\ g[mc[i]].type = "static"
        <5> SUFFICES ASSUME NEW i \in 1 .. l + 1 PROVE u[mc[i]] = E /\ g[mc[i]].type = "static"
          OBVIOUS
        <5>1. CASE i = l + 1
          BY <1>6, <1>9, <1>11, <1>13, <5>1
        <5>2. CASE i \in 1 .. l
          BY <4>1, <5>2
        <5> QED
          BY <1>7, <5>1, <5>2, SMTT(30)
      <4> QED
        BY <1>2, <1>6, <1>9, <1>10, <1>14, <4>2 DEF ChildrenOK, Static
    <3>3. WildOK(g, u, n)
      <4>1. Len(k.wild) <= 1 /\ Len(k.wild) \in Nat
        BY <1>7, <3>1, LenProperties DEF WildOK, k
      <4>2. \A i \in 1 .. Len(k.wild) :
              k.wild[i] \in DOMAIN h /\ t[k.wild[i]] = E /\ h[k.wild[i]].type = "param"
        <5> SUFFICES ASSUME NEW i \in 1 .. Len(k.wild)
                     PROVE  k.wild[i] \in DOMAIN h /\ t[k.wild[i]] = E /\ h[k.wild[i]].type = "param"
          OBVIOUS
        <5>1. i = 1 /\ k.wild # <<>>
          BY <4>1, EmptySeq
        <5>2. k.wild[i] \in DOMAIN h /\ t[k.wild[i]] = E /\ h[k.wild[i]].type \in {"param", "catchAll"}
          BY <1>7, <3>1 DEF WildOK, E, k
        <5> QED
          BY <1>4, <5>1, <5>2
      <4> QED
        BY <1>6, <1>10, <1>14, <1>18, <4>1, <4>2, SMTT(30) DEF WildOK, Same
    <3>4. IndicesOK(g, c, n)
      <4> SUFFICES ASSUME Static(k) PROVE IndicesOK(g, c, n)
        BY <1>6, <1>10 DEF IndicesOK, Static
      <4>1. /\ \A i \in 1 .. l : k.indices[i] = Idx(h, "/", k.children[i])
            /\ \A i, j \in 1 .. l : k.indices[i] = k.indices[j] => i = j
            /\ \A i, j \in 1 .. l : i <= j => h[k.children[i]].priority >= h[k.children[j]].priority
        BY <3>1 DEF IndicesOK, k, l
      <4>2. \A i \in 1 .. l + 1 : i \in 1 .. l \/ i = l + 1
        BY <1>7
      <4>3. \A i \in 1 .. l + 1 : mi[i] = Idx(g, c, mc[i])
        BY <1>7, <1>9, <1>18, <1>19, <4>1, <4>2 DEF Same
      <4>4. \A i \in 1 .. l : k.indices[i] # c
        BY <1>4, <1>8 DEF Contains
      <4>5. \A i, j \in 1 .. l + 1 : mi[i] = mi[j] => i = j
        BY <1>9, <4>1, <4>2, <4>4
      <4>6. \A i \in 1 .. l : g[mc[i]].priority = h[k.children[i]].priority /\ g[mc[i]].priority \in Nat
        <5>1. \A z \in DOMAIN h : h[z].priority \in Nat
          BY <1>1 DEF Tree, NodeOK, NodeType
        <5>2. \A z \in DOMAIN h : g[z].priority = h[z].priority
          BY <1>6, <1>10 DEF k
        <5> QED
          BY <1>7, <1>9, <5>1, <5>2
      <4>7. g[mc[l + 1]].priority = 0
        BY <1>6, <1>9, <1>11
      <4>8. \A i, j \in 1 .. l + 1 : i <= j => g[mc[i]].priority >= g[mc[j]].priority
        <5> SUFFICES ASSUME NEW i \in 1 .. l + 1, NEW j \in 1 .. l + 1, i <= j
                     PROVE  g[mc[i]].priority >= g[mc[j]].priority
          OBVIOUS
        <5>1. CASE i \in 1 .. l /\ j \in 1 .. l
          BY <4>1, <4>6, <5>1
        <5>2. CASE i \in 1 .. l /\ j = l + 1
          BY <4>6, <4>7, <5>2
        <5>3. CASE i = l + 1
          BY <1>7, <4>7, <5>3
        <5> QED
          BY <4>2, <5>1, <5>2, <5>3
      <4>9. g[n].indices = mi /\ g[n].children = mc
        BY <1>6, <1>10
      <4>10. Len(mi) = l + 1 /\ Len(mc) = l + 1
        BY <1>9
      <4> QED
        BY <4>3, <4>5, <4>8, <4>9, <4>10 DEF IndicesOK
    <3>5. StaticOK(g, n)
      <4>1. Static(k) => k.path \in Seq(Char) /\ k.path # <<>>
        <5>1. Static(k) => k.path \in Seq(Char)
          BY <3>1 DEF StaticOK, k
        <5>2. ASSUME Static(k), k.path = <<>> PROVE FALSE
          <6>1. k.children = <<>> /\ \A i \in 1 .. Len(k.wild) : h[k.wild[i]].type = "catchAll"
            BY <3>1, <5>2 DEF StaticOK, k
          <6>2. k.wild # <<>>
            BY <1>1, <5>2, <6>1 DEF Blank
          <6>3. 1 \in 1 .. Len(k.wild)
            <7>1. Len(k.wild) \in Nat /\ Len(k.wild) # 0
              BY <1>7, <6>2, EmptySeq, LenProperties
            <7> QED
              BY <7>1
          <6> QED
            BY <1>4, <6>1, <6>2, <6>3
        <5> QED
          BY <5>1, <5>2
      <4> QED
        BY <1>6, <1>10, <4>1 DEF StaticOK, Static
    <3>6. ParamOK(g, c, n)
      <4> SUFFICES ASSUME k.type = "param" PROVE ParamOK(g, c, n)
        BY <1>6, <1>10 DEF ParamOK
      <4>1. Len(k.path) = 1 /\ k.path[1] \in Param /\ k.wild = <<>> /\ l <= 1 /\ c = "/"
        BY <1>2, <3>1 DEF ParamOK, k, l, Static
      <4>2. l = 0
        BY <1>4, <1>7, <4>1
      <4>3. Len(mc) = 1 /\ mc[1] = x
        BY <1>9, <4>2
      <4>4. \A i \in 1 .. Len(mc) : Idx(g, c, mc[i]) = "/"
        BY <1>19, <4>1, <4>3
      <4>5. g[n].path = k.path /\ g[n].wild = k.wild /\ g[n].children = mc
        BY <1>6, <1>10
      <4>6. /\ Len(g[n].path) = 1 /\ g[n].path[1] \in Param /\ g[n].wild = <<>>
            /\ Len(g[n].children) <= 1 /\ g[n].children # <<>>
        <5>1. Len(g[n].path) = 1 /\ g[n].path[1] \in Param /\ g[n].wild = <<>>
          BY <4>1, <4>5
        <5>2. g[n].children # <<>>
          BY <1>17, <4>5
        <5>3. Len(g[n].children) = 1
          BY <4>3, <4>5
        <5> QED
          BY <5>1, <5>2, <5>3
      <4>7. \A i \in 1 .. Len(g[n].children) : Idx(g, c, g[n].children[i]) = "/"
        BY <4>4, <4>5
      <4> QED
        BY <4>6, <4>7, Zenon DEF ParamOK
    <3>7. CatchAllOK(g, n)
      BY <1>2, <1>6, <1>10 DEF CatchAllOK, Static
    <3> QED
      BY <1>6, <1>10, <3>2, <3>3, <3>4, <3>5, <3>6, <3>7 DEF NodeOK
  <2>3. DataOK(g, u, R, n) /\ ~Blank(g[n])
    <3>1. DataOK(h, t, R, n)
      BY <1>1 DEF Tree
    <3> QED
      BY <1>6, <1>10, <1>14, <1>17, <3>1 DEF DataOK, Blank, E, k
  <2> QED
    BY <2>1, <2>2, <2>3
<1>21. Tree(g, u, c, R, x)
  <2>1. x \in DOMAIN g /\ Same(h, t, "/", g, u, c, n)
    BY <1>1, <1>6, <1>18
  <2> DEFINE X == {x}
             Y == {}
  <2>2. Grows(h, t, n, g, u, X, Y)
    BY <1>16
  <2>3. \A z \in {n} \cup X \cup Y :
          NodeOK(g, u, c, z) /\ DataOK(g, u, R, z) /\ (Blank(g[z]) => z = x)
    BY <1>20
  <2> HIDE DEF X, Y
  <2>4. TreeGrows(h, t, "/", R, n, g, u, c, R, X, Y, x)
    BY <1>1, <2>1, <2>2, <2>3 DEF TreeGrows
  <2> QED
    BY <2>4, GrowTree
<1>22. Ways(g, u, U, R, p, x, x)
  <2>1. <<p, x>> \in U /\ x \in Kids(g[n]) /\ n \in DOMAIN g /\ x \in DOMAIN g
    BY <1>1, <1>6, <1>15
  <2>2. OnWay(g, u, U, R, p, x, p, n)
    BY <1>1, <1>12, <1>14, <2>1 DEF OnWay
  <2>3. OnWay(g, u, U, R, p, x, p, x)
    BY <1>1, <1>12, <1>14, <2>1 DEF OnWay
  <2>4. End(g, u, n) = End(h, t, n) /\ h[n].data \in {NoData, g[n].data}
    BY <1>6, <1>10, <1>14 DEF E, k
  <2>5. \A z \in {n} \cup {x} \cup {} : OnWay(g, u, U, R, p, x, p, z)
    BY <2>2, <2>3
  <2> DEFINE X == {x}
             Y == {}
  <2>6. U = T \cup {<<p, z>> : z \in X \cup Y}
    OBVIOUS
  <2>7. Grows(h, t, n, g, u, X, Y)
    BY <1>16
  <2>8. \A z \in {n} \cup X \cup Y : OnWay(g, u, U, R, p, x, p, z)
    BY <2>5
  <2> HIDE DEF X, Y, U, OnWay
  <2>9. WaysGrow(h, t, T, "/", R, p, n, g, u, U, R, p, x, x, X, Y)
    BY <1>1, <2>4, <2>6, <2>7, <2>8 DEF WaysGrow
  <2> QED
    BY <2>9, GrowWays
<1> HIDE DEF U
<1>23. Counted(g, u, U, c, R, p, x, x, x, f)
  <2>1. Len(k.indices) + 1 = l + 1 /\ l + 1 \in 1 .. Len(g[n].children) /\ n \in DOMAIN g
        /\ x = g[n].children[l + 1] /\ Len(g[n].indices) = Len(g[n].children)
        /\ (Static(g[n]) \/ g[n].type = "param")
    <3>1. g[n].children = mc /\ g[n].indices = mi /\ g[n].type = k.type /\ n \in DOMAIN g
      BY <1>1, <1>6, <1>10
    <3>2. l + 1 \in 1 .. l + 1
      BY <1>7
    <3>3. Static(g[n]) \/ g[n].type = "param"
      BY <1>2, <3>1 DEF Static
    <3> QED
      BY <1>8, <1>9, <3>1, <3>2, <3>3
  <2> HIDE DEF f
  <2>2. f = IncrementChildPrio(g, n, l + 1)
    BY <1>8 DEF f
  <2> QED
    BY <1>21, <1>22, <2>1, <2>2, IncrementTree
<1> HIDE DEF f
<1>24. InsertsAt(f, u, U, R, p, x, rest)
  <2>1. /\ Tree(f, u, c, R, x) /\ Ways(f, u, U, R, p, x, x) /\ DOMAIN f = DOMAIN g
        /\ f[x].type = "static" /\ f[x].path = <<>> /\ f[x].wild = <<>> /\ Kids(f[x]) = {}
    BY <1>6, <1>11, <1>23 DEF Counted
  <2>2. f[x].children = <<>>
    <3>1. f[x] \in NodeType(DOMAIN f)
      BY <1>6, <2>1 DEF Tree, NodeOK
    <3>2. f[x].children \in Seq(DOMAIN f)
      BY <3>1 DEF NodeType
    <3>3. Len(f[x].children) \in Nat /\ ~(1 \in 1 .. Len(f[x].children))
      <4>1. 1 \in 1 .. Len(f[x].children) => f[x].children[1] \in Kids(f[x])
        BY DEF Kids
      <4> QED
        BY <2>1, <3>2, <4>1, LenProperties
    <3> QED
      BY <3>2, <3>3, EmptySeq
  <2>3. End(f, u, x) = E
    BY <1>12, <1>13, <2>1 DEF End
  <2>4. <<p, x>> \in U
    BY DEF U
  <2> QED
    BY <1>1, <1>3, <2>1, <2>2, <2>3, <2>4 DEF InsertsAt, Blank, Static, c
<1> QED
  BY <1>24 DEF f, k

\* Sequences of tokens.
LEMMA TokenConcat ==
  /\ \A a, b \in Seq(Token) : a \o b \in Seq(Token)
  /\ \A a, b, d \in Seq(Token) : (a \o b) \o d = a \o (b \o d)
<1>1. \A a, b \in Seq(Token) : a \o b \in Seq(Token)
  BY ConcatProperties
<1>2. \A a, b, d \in Seq(Token) : (a \o b) \o d = a \o (b \o d)
  BY ConcatAssociative
<1> QED
  BY <1>1, <1>2

\* The first wildcard of a path.
LEMMA WildcardFacts ==
  ASSUME NEW s \in Seq(Token)
  PROVE  /\ FindWildcard(s) \in 0 .. Len(s)
         /\ FindWildcard(s) > 0 => s[FindWildcard(s)] \in Wildcard
         /\ FindWildcard(s) = 0 => s \in Seq(Char)
         /\ FindWildcard(s) > 0 => SubSeq(s, 1, FindWildcard(s) - 1) \in Seq(Char)
<1> DEFINE I == {i \in 1 .. Len(s) : s[i] \in Wildcard}
           f == FindWildcard(s)
<1>0. Len(s) \in Nat /\ \A i \in 1 .. Len(s) : s[i] \in Token
  BY LenProperties, ElementOfSeq
<1>1. f = IF I # {} THEN Min(I) ELSE 0
  BY DEF FindWildcard, SelectInSeq
<1>2. CASE I = {}
  <2>1. \A i \in 1 .. Len(s) : s[i] \in Char
    BY <1>0, <1>2 DEF Token
  <2>2. s \in Seq(Char)
    <3>1. s \in [1 .. Len(s) -> Char]
      BY <2>1, LenProperties
    <3> QED
      BY <1>0, <3>1, SeqDef
  <2> QED
    BY <1>0, <1>1, <1>2, <2>2
<1>3. CASE I # {}
  <2>1. I \in SUBSET Nat
    BY <1>0
  <2>2. \E n \in I : \A m \in I : n <= m
    BY <1>3, <2>1, Least
  <2>3. Min(I) \in I /\ \A m \in I : Min(I) <= m
    BY <2>2 DEF Min
  <2>4. f \in I /\ \A m \in I : f <= m
    BY <1>1, <1>3, <2>3
  <2> HIDE DEF f
  <2>5. f \in 1 .. Len(s) /\ f - 1 \in 0 .. Len(s)
    BY <1>0, <2>4
  <2>6. SubSeq(s, 1, f - 1) \in Seq(Char)
    <3>1. \A i \in 1 .. f - 1 : s[i] \in Char
      BY <1>0, <2>4, <2>5 DEF Token
    <3> QED
      BY <2>5, <3>1, SubSeqProperties
  <2> QED
    BY <2>4, <2>5, <2>6 DEF f
<1> QED
  BY <1>2, <1>3

\* What is before a token of the path, and with it.
Before(E, path, i) == E \o SubSeq(path, 1, i - 1)
Upto(E, path, i) == Before(E, path, i) \o <<path[i]>>

Cut(E, path, i, p) ==
  /\ Before(E, path, i) \in Seq(Token) /\ IsPrefix(Before(E, path, i), p)
  /\ Upto(E, path, i) \in Seq(Token) /\ IsPrefix(Upto(E, path, i), p)
  /\ p = Upto(E, path, i) \o From(path, i)
  /\ i = Len(path) => p = Upto(E, path, i)

\* A path cut at a token: the pattern up to it and beyond it.
LEMMA CutFacts ==
  ASSUME NEW E \in Seq(Token), NEW path \in Seq(Token), NEW i \in 1 .. Len(path),
         NEW p, p = E \o path
  PROVE  Cut(E, path, i, p)
<1> DEFINE a == SubSeq(path, 1, i - 1)
           b == <<path[i]>>
           d == From(path, i)
           w == SubSeq(path, 1, i)
<1>1. Len(path) \in Nat /\ i \in Nat /\ i - 1 \in 0 .. Len(path) /\ i \in 0 .. Len(path)
      /\ path[i] \in Token /\ \A j \in 1 .. Len(path) : path[j] \in Token
  BY LenProperties, ElementOfSeq
<1>2. /\ a \in Seq(Token) /\ Len(a) = i - 1 /\ \A j \in 1 .. i - 1 : a[j] = path[j]
  BY <1>1, SliceFacts
<1>3. /\ w \in Seq(Token) /\ Len(w) = i /\ \A j \in 1 .. i : w[j] = path[j]
      /\ d \in Seq(Token) /\ w \o d = path
      /\ Len(d) = Len(path) - i
  BY <1>1, SliceFacts
<1>4. b \in Seq(Token) /\ Len(b) = 1 /\ b[1] = path[i]
  BY <1>1
<1> HIDE DEF a, b, d, w
<1>5. a \o b = w
  <2> DEFINE v == a \o b
  <2>1. /\ v \in Seq(Token) /\ Len(v) = i
        /\ \A j \in 1 .. i : v[j] = IF j <= i - 1 THEN a[j] ELSE b[j - (i - 1)]
    <3>1. /\ a \o b \in Seq(Token)
          /\ Len(a \o b) = Len(a) + Len(b)
          /\ \A j \in 1 .. Len(a) + Len(b) : (a \o b)[j] = IF j <= Len(a) THEN a[j] ELSE b[j - Len(a)]
      BY <1>2, <1>4, ConcatProperties
    <3>2. Len(a) + Len(b) = i
      BY <1>1, <1>2, <1>4
    <3> QED
      BY <1>2, <3>1, <3>2
  <2> HIDE DEF v
  <2>2. ASSUME NEW j \in 1 .. i PROVE v[j] = w[j]
    <3>1. CASE j <= i - 1
      <4>1. j \in 1 .. i - 1
        BY <1>1, <3>1
      <4>2. v[j] = a[j]
        BY <2>1, <3>1
      <4> QED
        BY <1>2, <1>3, <4>1, <4>2
    <3>2. CASE j = i
      <4>1. j - (i - 1) = 1 /\ ~(j <= i - 1)
        BY <1>1, <3>2
      <4>2. v[j] = b[j - (i - 1)]
        BY <2>1, <4>1
      <4>3. v[j] = path[i]
        BY <1>4, <4>1, <4>2
      <4> QED
        BY <1>3, <3>2, <4>3
    <3> QED
      BY <1>1, <3>1, <3>2
  <2>3. v = w
    BY <1>3, <2>1, <2>2, SeqEqual
  <2> QED
    BY <2>3 DEF v
<1>6. \A r, s \in Seq(Token) : r \o s \in Seq(Token)
  BY TokenConcat
<1>7. \A r, s, z \in Seq(Token) : (r \o s) \o z = r \o (s \o z)
  BY TokenConcat
<1> DEFINE E1 == E \o a
           E2 == E1 \o b
<1>8. E1 \in Seq(Token) /\ E2 \in Seq(Token)
  BY <1>2, <1>4, <1>6
<1>9. E2 = E \o w
  BY <1>2, <1>4, <1>5, <1>7
<1>10. p = E2 \o d
  <2>1. (E \o w) \o d = E \o (w \o d)
    BY <1>3, <1>7
  <2> HIDE DEF E2
  <2> QED
    BY <1>3, <1>9, <2>1
<1> HIDE DEF E2
<1>11. IsPrefix(E2, p)
  BY <1>3, <1>8, <1>10, ConcatFacts
<1>12. IsPrefix(E1, p)
  <2>1. E2 = E1 \o b /\ p \in Seq(Token)
    BY <1>3, <1>6, <1>8, <1>10 DEF E2
  <2> HIDE DEF E1
  <2> QED
    BY <1>4, <1>8, <1>11, <2>1, PrefixTrans
<1>13. i = Len(path) => p = E2
  <2> SUFFICES ASSUME i = Len(path) PROVE p = E2
    OBVIOUS
  <2>1. d = <<>>
    BY <1>1, <1>3, EmptySeq
  <2> QED
    BY <1>8, <1>10, <2>1, ConcatEmptySeq
<1> QED
  BY <1>8, <1>10, <1>11, <1>12, <1>13 DEF Cut, Before, Upto, E1, E2, a, b, d

\* The node n gets the wildcard child x, and if it is blank a path before it.
GetsWildcard(h, n, path, g, u, x) ==
  /\ g[n].type = h[n].type /\ g[n].children = h[n].children /\ g[n].indices = h[n].indices
  /\ g[n].data = h[n].data /\ g[n].wild = <<x>> /\ u[x] = End(g, u, n)
  /\ g[n] \in NodeType(DOMAIN g)
  /\ g[x].type \in {"param", "catchAll"} /\ (g[x].type = "catchAll" => g[x].path = <<>>)
  /\ IF Blank(h[n])
     THEN /\ g[n].path \in Seq(Char)
          /\ IF g[n].path = <<>> THEN path[1] = "/" /\ g[x].type = "catchAll"
             ELSE g[n].path[1] = path[1]
     ELSE g[n].path = h[n].path /\ g[x].type = "param"

\* The node that gets the wildcard is right.
LEMMA WildcardGrows ==
  ASSUME NEW h, NEW t, NEW T, NEW R, NEW p, NEW n, NEW path, InsertsAt(h, t, T, R, p, n, path),
         NEW g, NEW u, NEW d, NEW S, NEW x, NEW Y, Grows(h, t, n, g, u, {x}, Y), R \subseteq S,
         GetsWildcard(h, n, path, g, u, x)
  PROVE  /\ NodeOK(g, u, d, n) /\ DataOK(g, u, S, n) /\ ~Blank(g[n])
         /\ Same(h, t, path[1], g, u, d, n)
         /\ Blank(h[n]) \/ (End(g, u, n) = End(h, t, n) /\ h[n].data \in {NoData, g[n].data})
<1> DEFINE k == h[n]
           m == g[n]
           c == path[1]
<1>1. /\ Tree(h, t, c, R, n) /\ n \in DOMAIN h /\ k \in NodeType(DOMAIN h) /\ Static(k) /\ k.wild = <<>>
      /\ NodeOK(h, t, c, n) /\ DataOK(h, t, R, n)
      /\ \A z \in DOMAIN h : Blank(h[z]) => z = n
  BY DEF InsertsAt, Tree, NodeOK
<1>2. /\ m.type = k.type /\ m.children = k.children /\ m.indices = k.indices /\ m.data = k.data
      /\ m.wild = <<x>> /\ m.priority = k.priority /\ m \in NodeType(DOMAIN g)
      /\ u[x] = End(g, u, n) /\ g[x].type \in {"param", "catchAll"}
      /\ g[x].type = "catchAll" => g[x].path = <<>>
      /\ Static(m)
  BY <1>1 DEF GetsWildcard, Grows, Static
<1>3. /\ DOMAIN h \subseteq DOMAIN g /\ x \in DOMAIN g /\ x # n /\ x \notin DOMAIN h
      /\ \A z \in DOMAIN h : u[z] = t[z] /\ (z # n => g[z] = h[z])
  BY <1>1 DEF Grows
<1>4. /\ k.children \in Seq(DOMAIN h) /\ Len(k.children) \in Nat
      /\ \A i \in 1 .. Len(k.children) : k.children[i] \in DOMAIN h /\ k.children[i] # n
  <2>1. k.children \in Seq(DOMAIN h)
    BY <1>1 DEF NodeType
  <2>2. \A i \in 1 .. Len(k.children) : k.children[i] \in Kids(k)
    BY DEF Kids
  <2> QED
    BY <1>1, <2>1, <2>2, KidFacts, LenProperties
<1>5. IF Blank(k) THEN /\ k.children = <<>> /\ k.path = <<>> /\ m.path \in Seq(Char)
                       /\ IF m.path = <<>> THEN c = "/" /\ g[x].type = "catchAll" ELSE m.path[1] = c
      ELSE m.path = k.path /\ g[x].type = "param"
  BY DEF GetsWildcard, Blank
<1> HIDE DEF k, m, c
<1>6. /\ ChildrenOK(h, t, n) /\ IndicesOK(h, c, n) /\ StaticOK(h, n)
  BY <1>1 DEF NodeOK
<1>7. ~Blank(k) => End(g, u, n) = End(h, t, n)
  BY <1>1, <1>3, <1>5 DEF End, k, m
<1>8. ~Blank(m)
  BY <1>2 DEF Blank
<1>9. Same(h, t, c, g, u, d, n)
  <2>1. Idx(g, d, n) = IndexOf(m)
    BY <1>8 DEF Idx, m
  <2>2. CASE Blank(k)
    <3>1. Idx(h, c, n) = c
      BY <2>2 DEF Idx, k
    <3>2. IndexOf(m) = c
      BY <1>5, <2>2 DEF IndexOf
    <3> QED
      BY <1>1, <1>2, <1>3, <2>1, <3>1, <3>2 DEF Same, Static, k, m
  <2>3. CASE ~Blank(k)
    <3>1. Idx(h, c, n) = IndexOf(k)
      BY <2>3 DEF Idx, k
    <3>2. IndexOf(m) = IndexOf(k)
      BY <1>5, <2>3 DEF IndexOf
    <3> QED
      BY <1>1, <1>2, <1>3, <2>1, <3>1, <3>2 DEF Same, Static, k, m
  <2> QED
    BY <2>2, <2>3
<1>10. ASSUME NEW i \in 1 .. Len(k.children)
       PROVE  /\ ~Blank(k) /\ u[k.children[i]] = t[k.children[i]]
              /\ g[k.children[i]] = h[k.children[i]]
              /\ Idx(g, d, k.children[i]) = Idx(h, c, k.children[i])
  <2>1. ~Blank(k)
    BY <1>10, EmptySeq DEF Blank
  <2>2. k.children[i] \in DOMAIN h /\ k.children[i] # n
    BY <1>4
  <2>3. ~Blank(h[k.children[i]])
    BY <1>1, <2>2
  <2> QED
    BY <1>3, <2>1, <2>2, <2>3 DEF Idx
<1>11. ChildrenOK(g, u, n)
  <2>1. \A i \in 1 .. Len(k.children) :
          /\ t[k.children[i]] = End(h, t, n)
          /\ h[k.children[i]].type = IF k.type = "catchAll" THEN "catchAll" ELSE "static"
    BY <1>6 DEF ChildrenOK, k
  <2>2. \A i \in 1 .. Len(k.children) :
          /\ u[k.children[i]] = End(g, u, n)
          /\ g[k.children[i]].type = IF k.type = "catchAll" THEN "catchAll" ELSE "static"
    BY <1>7, <1>10, <2>1
  <2> QED
    BY <1>2, <2>2 DEF ChildrenOK, m
<1>12. WildOK(g, u, n)
  <2>1. Len(m.wild) = 1 /\ m.wild[1] = x
    BY <1>2
  <2>2. \A i \in 1 .. Len(m.wild) : i = 1
    BY <2>1
  <2>3. g[x].type = "catchAll" => m.children = <<>>
    BY <1>2, <1>5
  <2> QED
    BY <1>2, <2>1, <2>2, <2>3 DEF WildOK, m
<1>13. IndicesOK(g, d, n)
  <2>1. /\ Len(k.indices) = Len(k.children)
        /\ \A i \in 1 .. Len(k.children) : k.indices[i] = Idx(h, c, k.children[i])
        /\ \A i, j \in 1 .. Len(k.children) : k.indices[i] = k.indices[j] => i = j
        /\ \A i, j \in 1 .. Len(k.children) :
             i <= j => h[k.children[i]].priority >= h[k.children[j]].priority
    BY <1>1, <1>6 DEF IndicesOK, k
  <2>2. /\ \A i \in 1 .. Len(k.children) : k.indices[i] = Idx(g, d, k.children[i])
        /\ \A i, j \in 1 .. Len(k.children) :
             i <= j => g[k.children[i]].priority >= g[k.children[j]].priority
    BY <1>10, <2>1
  <2> QED
    BY <1>2, <2>1, <2>2 DEF IndicesOK, m
<1>14. StaticOK(g, n)
  <2>1. CASE Blank(k)
    <3>1. m.path \in Seq(Char) /\ (m.path = <<>> => g[x].type = "catchAll")
      BY <1>5, <2>1
    <3>2. k.data = NoData /\ k.children = <<>>
      BY <1>1, <1>5, <1>6, <2>1 DEF StaticOK, k
    <3>3. \A i \in 1 .. Len(m.wild) : m.wild[i] = x
      BY <1>2
    <3> QED
      BY <1>2, <3>1, <3>2, <3>3 DEF StaticOK, m
  <2>2. CASE ~Blank(k)
    <3>1. k.path \in Seq(Char) /\ (k.path = <<>> => k.children = <<>>)
      BY <1>1, <1>6 DEF StaticOK, k
    <3>2. k.path # <<>>
      BY <1>1, <2>2, <3>1 DEF Blank, k
    <3> QED
      BY <1>5, <2>2, <3>1, <3>2 DEF StaticOK, m
  <2> QED
    BY <2>1, <2>2
<1>15. ParamOK(g, d, n) /\ CatchAllOK(g, n)
  BY <1>2 DEF ParamOK, CatchAllOK, Static, m
<1>16. NodeOK(g, u, d, n)
  BY <1>2, <1>11, <1>12, <1>13, <1>14, <1>15 DEF NodeOK, m
<1>17. DataOK(g, u, S, n)
  <2>1. CASE Blank(k)
    <3>1. k.data = NoData
      BY <1>1, <1>5, <1>6, <2>1 DEF StaticOK, k
    <3> QED
      BY <1>2, <3>1 DEF DataOK, m
  <2>2. CASE ~Blank(k)
    BY <1>1, <1>2, <1>7, <2>2 DEF DataOK, k, m
  <2> QED
    BY <2>1, <2>2
<1>18. Blank(k) \/ (End(g, u, n) = End(h, t, n) /\ k.data \in {NoData, m.data})
  BY <1>2, <1>7
<1> QED
  BY <1>8, <1>9, <1>16, <1>17, <1>18 DEF k, m, c

\* Memory g is h with the path np and the wildcard child x written at n, and the new nodes.
Writes(h, t, n, path, np, g, u, x, Y) ==
  /\ x \notin DOMAIN h /\ x \notin Y /\ Y \cap DOMAIN h = {}
  /\ \A y, z \in Y : y = z
  /\ g[n] = [h[n] EXCEPT !.wild = <<x>>, !.path = np]
  /\ DOMAIN g = DOMAIN h \cup {x} \cup Y /\ u \in [DOMAIN g -> Seq(Token)]
  /\ \A z \in DOMAIN h : u[z] = t[z] /\ (z # n => g[z] = h[z])
  /\ u[x] = t[n] \o np /\ Kids(g[x]) = Y
  /\ \A y \in Y : Kids(g[y]) = {}
  /\ g[x].type \in {"param", "catchAll"} /\ (g[x].type = "catchAll" => g[x].path = <<>>)
  /\ IF Blank(h[n])
     THEN /\ np \in Seq(Char)
          /\ IF np = <<>> THEN path[1] = "/" /\ g[x].type = "catchAll" ELSE np[1] = path[1]
     ELSE np = h[n].path /\ g[x].type = "param"

Wrote(h, t, n, path, np, g, u, x, Y) ==
  /\ Grows(h, t, n, g, u, {x}, Y) /\ GetsWildcard(h, n, path, g, u, x)
  /\ g[n].data = h[n].data /\ g[n].path = np /\ x \in Kids(g[n])

\* Writing a wildcard below a node is a way of growing.
LEMMA WritesFacts ==
  ASSUME NEW h, NEW t, NEW T, NEW R, NEW p, NEW n, NEW path, InsertsAt(h, t, T, R, p, n, path),
         NEW np, NEW g, NEW u, NEW x, NEW Y, Writes(h, t, n, path, np, g, u, x, Y)
  PROVE  Wrote(h, t, n, path, np, g, u, x, Y)
<1> DEFINE k == h[n]
           m == g[n]
<1>1. /\ Tree(h, t, path[1], R, n) /\ n \in DOMAIN h /\ k \in NodeType(DOMAIN h) /\ k.wild = <<>>
      /\ t \in [DOMAIN h -> Seq(Token)]
  BY DEF InsertsAt, Tree, NodeOK
<1>2. m = [k EXCEPT !.wild = <<x>>, !.path = np]
  BY DEF Writes
<1>3. np \in Seq(Token)
  <2>1. \A s : s \in Seq(Char) => s \in Seq(Token)
    <3>1. Char \subseteq Token
      BY DEF Token
    <3> QED
      BY <3>1, SeqMonotonic
  <2>2. k.path \in Seq(Token)
    BY <1>1 DEF NodeType
  <2> QED
    BY <2>1, <2>2 DEF Writes
<1>4. DOMAIN h \subseteq DOMAIN g /\ x \in DOMAIN g
  BY DEF Writes
<1> HIDE DEF k, m
<1>5. /\ m.type = k.type /\ m.children = k.children /\ m.indices = k.indices /\ m.data = k.data
      /\ m.wild = <<x>> /\ m.priority = k.priority /\ m.path = np
  BY <1>1, <1>2 DEF NodeType
<1>6. m \in NodeType(DOMAIN g)
  <2>1. k \in NodeType(DOMAIN g)
    <3>1. \A s : s \in Seq(DOMAIN h) => s \in Seq(DOMAIN g)
      BY <1>4, SeqMonotonic
    <3> QED
      BY <1>1, <3>1 DEF NodeType
  <2>2. <<x>> \in Seq(DOMAIN g)
    BY <1>4
  <2> QED
    BY <1>2, <1>3, <2>1, <2>2 DEF NodeType
<1>7. Kids(m) = Kids(k) \cup {x}
  <2>1. Len(m.wild) = 1 /\ m.wild[1] = x /\ Len(k.wild) = 0
    BY <1>1, <1>5, EmptySeq
  <2>2. {m.wild[i] : i \in 1 .. Len(m.wild)} = {x}
    BY <2>1
  <2>3. {k.wild[i] : i \in 1 .. Len(k.wild)} = {}
    BY <2>1
  <2>4. {m.children[i] : i \in 1 .. Len(m.children)} = {k.children[i] : i \in 1 .. Len(k.children)}
    BY <1>5
  <2> QED
    BY <2>2, <2>3, <2>4 DEF Kids
<1>8. u[x] = End(g, u, n)
  BY <1>1, <1>5 DEF Writes, End, m
<1>9. Grows(h, t, n, g, u, {x}, Y)
  BY <1>5, <1>7 DEF Grows, Writes, k, m
<1>10. GetsWildcard(h, n, path, g, u, x)
  BY <1>5, <1>6, <1>8 DEF GetsWildcard, Writes, k, m
<1> QED
  BY <1>5, <1>7, <1>9, <1>10 DEF k, m, Wrote

\* What is right of the nodes that are written is right of the tree.
WildcardRight(g, u, U, d, S, q, b, e, p, n, x, Y) ==
  /\ b \in DOMAIN g
  /\ \A z \in {x} \cup Y : NodeOK(g, u, d, z) /\ DataOK(g, u, S, z) /\ (Blank(g[z]) => z = b)
  /\ \A z \in {n} \cup {x} \cup Y : OnWay(g, u, U, S, q, e, p, z)

\* With right new nodes the tree and its ways are right.
LEMMA WildcardTree ==
  ASSUME NEW h, NEW t, NEW T, NEW R, NEW p, NEW n, NEW path, InsertsAt(h, t, T, R, p, n, path),
         NEW np, NEW g, NEW u, NEW x, NEW Y, Writes(h, t, n, path, np, g, u, x, Y),
         NEW U, U = T \cup {<<p, z>> : z \in {x} \cup Y},
         NEW S, NEW q, NEW b, (S = R /\ q = p) \/ (S = R \cup {p} /\ q = <<>> /\ b = Root),
         NEW d, WildcardRight(g, u, U, d, S, q, b, b, p, n, x, Y)
  PROVE  Tree(g, u, d, S, b) /\ Ways(g, u, U, S, q, b, b)
<1> DEFINE X == {x}
<1>1. /\ Tree(h, t, path[1], R, n) /\ Ways(h, t, T, R, p, n, n) /\ <<p, n>> \in T
      /\ Grows(h, t, n, g, u, X, Y) /\ GetsWildcard(h, n, path, g, u, x) /\ R \subseteq S
  BY WritesFacts DEF InsertsAt, Wrote
<1>2. /\ NodeOK(g, u, d, n) /\ DataOK(g, u, S, n) /\ ~Blank(g[n])
      /\ Same(h, t, path[1], g, u, d, n)
      /\ Blank(h[n]) \/ (End(g, u, n) = End(h, t, n) /\ h[n].data \in {NoData, g[n].data})
  BY <1>1, WildcardGrows
<1>3. U = T \cup {<<p, z>> : z \in X \cup Y}
  OBVIOUS
<1>4. /\ b \in DOMAIN g
      /\ \A z \in X \cup Y : NodeOK(g, u, d, z) /\ DataOK(g, u, S, z) /\ (Blank(g[z]) => z = b)
      /\ \A z \in {n} \cup X \cup Y : OnWay(g, u, U, S, q, b, p, z)
  BY DEF WildcardRight
<1> HIDE DEF X
<1>5. TreeGrows(h, t, path[1], R, n, g, u, d, S, X, Y, b)
  BY <1>1, <1>2, <1>4 DEF TreeGrows
<1>6. WaysGrow(h, t, T, path[1], R, p, n, g, u, U, S, q, b, b, X, Y)
  BY <1>1, <1>2, <1>3, <1>4 DEF WaysGrow
<1> QED
  BY <1>5, <1>6, GrowTree, GrowWays

\* The rest of a path without a wildcard becomes that of the node.
LEMMA StaticInserted ==
  ASSUME NEW h, NEW t, NEW T, NEW R, NEW p, NEW n, NEW path, InsertsAt(h, t, T, R, p, n, path),
         FindWildcard(path) = 0, NEW m, m = [h[n] EXCEPT !.path = path, !.data = p],
         NEW g, Written(g, h, n, m)
  PROVE  RestsAt(g, t, T, R \cup {p})
<1> DEFINE k == h[n]
           S == R \cup {p}
<1>1. /\ Tree(h, t, path[1], R, n) /\ Ways(h, t, T, R, p, n, n) /\ <<p, n>> \in T /\ p \in Pattern
      /\ path \in Seq(Token) /\ path # <<>> /\ n \in DOMAIN h /\ k \in NodeType(DOMAIN h) /\ Static(k)
      /\ NodeOK(h, t, path[1], n) /\ t \in [DOMAIN h -> Seq(Token)] /\ Root \in DOMAIN h
      /\ p = End(h, t, n) \o path
  BY DEF InsertsAt, Tree, NodeOK
<1>2. path \in Seq(Char) /\ p \in Seq(Token)
  BY <1>1, WildcardFacts, PatternTokens
<1>3. Blank(k)
  <2>1. path[1] \in Char
    BY <1>1, <1>2, EmptySeq, LenProperties, ElementOfSeq
  <2> QED
    BY <2>1, TokenAssumption DEF InsertsAt
<1>4. k.path = <<>> /\ k.children = <<>> /\ k.wild = <<>>
  BY <1>3 DEF Blank
<1>5. k.indices = <<>>
  <2>1. Len(k.indices) = Len(k.children) /\ k.indices \in Seq(Char)
    BY <1>1 DEF NodeOK, IndicesOK, NodeType
  <2> QED
    BY <1>4, <2>1, EmptySeq
<1>6. m = [k EXCEPT !.path = path, !.data = p]
  OBVIOUS
<1> HIDE DEF k
<1>7. /\ m.type = k.type /\ m.children = <<>> /\ m.indices = <<>> /\ m.data = p
      /\ m.wild = <<>> /\ m.priority = k.priority /\ m.path = path
      /\ m \in NodeType(DOMAIN h)
  BY <1>1, <1>2, <1>4, <1>5, <1>6 DEF NodeType
<1>8. DOMAIN g = DOMAIN h /\ g[n] = m /\ \A z \in DOMAIN h : z # n => g[z] = h[z]
  BY <1>1 DEF Written
<1>9. End(g, t, n) = p
  <2>1. t[n] \o <<>> = t[n]
    BY <1>1, ConcatEmptySeq
  <2> QED
    BY <1>1, <1>4, <1>7, <1>8, <2>1 DEF End, k
<1>10. Kids(m) = {} /\ Kids(k) = {}
  <2>1. Len(<<>>) = 0
    BY EmptySeq
  <2> QED
    BY <1>4, <1>7, <2>1 DEF Kids
<1> DEFINE X == {}
<1>11. Grows(h, t, n, g, t, X, X)
  BY <1>1, <1>7, <1>8, <1>10 DEF Grows, k
<1>12. ~Blank(m)
  BY <1>1, <1>7 DEF Blank
<1>13. Same(h, t, path[1], g, t, "/", n)
  BY <1>1, <1>3, <1>7, <1>8, <1>12 DEF Same, Idx, IndexOf, Static, k
<1>14. NodeOK(g, t, "/", n)
  <2>1. Static(g[n])
    BY <1>1, <1>7, <1>8 DEF Static
  <2> QED
    BY <1>1, <1>2, <1>7, <1>8, <2>1, LeafOK
<1>15. DataOK(g, t, S, n)
  BY <1>7, <1>8, <1>9 DEF DataOK
<1>16. OnWay(g, t, T, S, <<>>, Root, p, n)
  <2>1. IsPrefix(p, p)
    BY <1>2, PrefixFacts, LenProperties
  <2> QED
    BY <1>1, <1>7, <1>8, <1>9, <2>1 DEF OnWay
<1> HIDE DEF X, OnWay
<1>17. TreeGrows(h, t, path[1], R, n, g, t, "/", S, X, X, Root)
  BY <1>1, <1>8, <1>11, <1>12, <1>13, <1>14, <1>15 DEF TreeGrows, X
<1>18. WaysGrow(h, t, T, path[1], R, p, n, g, t, T, S, <<>>, Root, Root, X, X)
  BY <1>1, <1>3, <1>11, <1>16 DEF WaysGrow, X, k
<1> QED
  BY <1>17, <1>18, GrowTree, GrowWays DEF RestsAt

\* Where the insertion of a wildcard stands: the text before the node, and the blank or the
\* path before the wildcard.
Placed(h, t, T, p, n, path, i, np) ==
  /\ i \in 1 .. Len(path) /\ path \in Seq(Token) /\ n \in DOMAIN h /\ p \in Pattern
  /\ t \in [DOMAIN h -> Seq(Token)] /\ p = End(h, t, n) \o path
  /\ End(h, t, n) \in Seq(Token) /\ <<p, n>> \in T
  /\ t[n] \o np = Before(End(h, t, n), path, i)
  /\ IF Blank(h[n]) THEN np \in Seq(Char) /\ np # <<>> /\ np[1] = path[1]
     ELSE np = h[n].path

\* What is before the wildcard becomes the path of a blank node.
LEMMA WildcardPlace ==
  ASSUME NEW h, NEW t, NEW T, NEW R, NEW p, NEW n, NEW path, InsertsAt(h, t, T, R, p, n, path),
         NEW i, i = FindWildcard(path), i > 0,
         NEW np, np = IF i > 1 THEN SubSeq(path, 1, i - 1) ELSE h[n].path
  PROVE  Placed(h, t, T, p, n, path, i, np)
<1> DEFINE k == h[n]
           E == End(h, t, n)
           a == SubSeq(path, 1, i - 1)
<1>1. /\ path \in Seq(Token) /\ path # <<>> /\ n \in DOMAIN h /\ k \in NodeType(DOMAIN h)
      /\ t \in [DOMAIN h -> Seq(Token)] /\ p = E \o path /\ p \in Pattern /\ <<p, n>> \in T
      /\ IF Blank(k) THEN path[1] \in Char ELSE path[1] \in Wildcard
  BY DEF InsertsAt, Tree, NodeOK
<1>2. /\ i \in 1 .. Len(path) /\ path[i] \in Wildcard /\ a \in Seq(Char) /\ Len(path) \in Nat
      /\ i \in Nat /\ i - 1 \in 0 .. Len(path)
  <2>1. Len(path) \in Nat
    BY <1>1, LenProperties
  <2> QED
    BY <1>1, <2>1, WildcardFacts
<1>3. /\ Len(a) = i - 1 /\ \A j \in 1 .. i - 1 : a[j] = path[j]
      /\ a \in Seq(Token)
  BY <1>1, <1>2, SliceFacts, SMTT(30)
<1>4. E \in Seq(Token) /\ k.path \in Seq(Token) /\ t[n] \in Seq(Token)
  <2>1. k.path \in Seq(Token) /\ t[n] \in Seq(Token)
    BY <1>1 DEF NodeType
  <2> QED
    BY <2>1, TokenConcat DEF End
<1> HIDE DEF k, a
<1>5. CASE i > 1
  <2>1. np = a /\ a # <<>> /\ a[1] = path[1] /\ a[1] \in Char
    <3>1. 1 \in 1 .. i - 1 /\ Len(a) # 0
      BY <1>2, <1>3, <1>5
    <3>2. a[1] = path[1] /\ a # <<>>
      BY <1>3, <3>1, EmptySeq
    <3>3. a[1] \in Char
      BY <1>2, <1>3, <3>1, ElementOfSeq
    <3> QED
      BY <1>5, <3>2, <3>3 DEF a
  <2>2. Blank(k)
    BY <1>1, <2>1, TokenAssumption
  <2>3. E = t[n]
    BY <1>4, <2>2, ConcatEmptySeq DEF End, Blank, k
  <2>4. t[n] \o np = Before(E, path, i)
    BY <2>1, <2>3 DEF Before, a
  <2> HIDE DEF E
  <2> QED
    BY <1>1, <1>2, <1>4, <2>1, <2>2, <2>4 DEF k, E, Placed
<1>6. CASE i = 1
  <2>1. a = <<>>
    BY <1>3, <1>6, EmptySeq
  <2>2. ~Blank(k)
    BY <1>1, <1>2, <1>6, TokenAssumption
  <2>3. np = k.path
    BY <1>6 DEF k
  <2>4. E \o <<>> = E
    BY <1>4, ConcatEmptySeq
  <2>5. t[n] \o np = Before(E, path, i)
    BY <2>1, <2>3, <2>4 DEF Before, a, End, k
  <2> HIDE DEF E
  <2> QED
    BY <1>1, <1>2, <1>4, <2>2, <2>3, <2>5 DEF k, E, Placed
<1>7. i > 1 \/ i = 1
  BY <1>2
<1> QED
  BY <1>5, <1>6, <1>7

\* A ":name" node: the handler is there, or a slash goes on below it.
LEMMA ParamNode ==
  ASSUME NEW g, NEW u, NEW d, NEW x, g[x] \in NodeType(DOMAIN g), g[x].type = "param",
         Len(g[x].path) = 1, g[x].path[1] \in Param, g[x].wild = <<>>, g[x].indices = <<>>,
         \/ g[x].children = <<>>
         \/ \E y : /\ g[x].children = <<y>> /\ u[y] = End(g, u, x)
                   /\ g[y].type = "static" /\ Idx(g, d, y) = "/"
  PROVE  NodeOK(g, u, d, x)
<1>1. Len(<<>>) = 0
  BY EmptySeq
<1>2. /\ Len(g[x].children) <= 1
      /\ \A i \in 1 .. Len(g[x].children) :
           LET y == g[x].children[i] IN
           u[y] = End(g, u, x) /\ g[y].type = "static" /\ Idx(g, d, y) = "/"
  <2>1. CASE g[x].children = <<>>
    BY <1>1, <2>1
  <2>2. CASE g[x].children # <<>>
    <3>1. PICK y : /\ g[x].children = <<y>> /\ u[y] = End(g, u, x)
                   /\ g[y].type = "static" /\ Idx(g, d, y) = "/"
      BY <2>2
    <3>2. Len(g[x].children) = 1 /\ g[x].children[1] = y
      BY <3>1
    <3>3. \A i \in 1 .. Len(g[x].children) : i = 1
      BY <3>2
    <3> QED
      BY <3>1, <3>2, <3>3
  <2> QED
    BY <2>1, <2>2
<1>3. ChildrenOK(g, u, x)
  BY <1>2 DEF ChildrenOK
<1>4. WildOK(g, u, x)
  BY <1>1 DEF WildOK
<1>5. IndicesOK(g, d, x) /\ StaticOK(g, x) /\ CatchAllOK(g, x)
  BY DEF IndicesOK, StaticOK, CatchAllOK, Static
<1>6. ParamOK(g, d, x)
  BY <1>2 DEF ParamOK
<1> QED
  BY <1>3, <1>4, <1>5, <1>6 DEF NodeOK

\* The pattern ends with a ":name".
LEMMA ParamInserted ==
  ASSUME NEW h, NEW t, NEW T, NEW R, NEW p, NEW n, NEW path, InsertsAt(h, t, T, R, p, n, path),
         NEW i, i = FindWildcard(path), i > 0, path[i] \in Param, i = Len(path),
         NEW x, x \notin DOMAIN h,
         NEW m, m = [h[n] EXCEPT !.wild = <<x>>,
                                 !.path = IF i > 1 THEN SubSeq(path, 1, i - 1) ELSE @],
         NEW v, v = [Node("param", <<path[i]>>, 1) EXCEPT !.data = p],
         NEW g, BothWritten(g, h, n, m, x, v)
  PROVE  \E u, U : RestsAt(g, u, U, R \cup {p})
<1> DEFINE np == IF i > 1 THEN SubSeq(path, 1, i - 1) ELSE h[n].path
           E == End(h, t, n)
           B == Before(E, path, i)
           u == Put(t, x, B)
           Y == {}
           U == T \cup {<<p, z>> : z \in {x} \cup Y}
           S == R \cup {p}
<1>1. /\ i \in 1 .. Len(path) /\ path \in Seq(Token) /\ n \in DOMAIN h /\ p \in Pattern
      /\ t \in [DOMAIN h -> Seq(Token)] /\ p = E \o path
      /\ E \in Seq(Token) /\ <<p, n>> \in T /\ t[n] \o np = B
      /\ IF Blank(h[n]) THEN np \in Seq(Char) /\ np # <<>> /\ np[1] = path[1]
         ELSE np = h[n].path
  <2>1. np = IF i > 1 THEN SubSeq(path, 1, i - 1) ELSE h[n].path
    OBVIOUS
  <2> HIDE DEF np
  <2>2. Placed(h, t, T, p, n, path, i, np)
    BY <2>1, WildcardPlace
  <2> QED
    BY <2>2 DEF Placed
<1>2. /\ B \in Seq(Token) /\ IsPrefix(B, p) /\ p = B \o <<path[i]>>
  <2> HIDE DEF E, np
  <2>1. Cut(E, path, i, p)
    BY <1>1, CutFacts
  <2> QED
    BY <2>1 DEF Cut, Upto
<1>3. m = [h[n] EXCEPT !.wild = <<x>>, !.path = np]
  OBVIOUS
<1>4. /\ DOMAIN g = DOMAIN h \cup {x} /\ g[n] = m /\ g[x] = v
      /\ \A z \in DOMAIN h : z # n => g[z] = h[z]
  BY <1>1 DEF BothWritten
<1> HIDE DEF np, E, B
<1>5. /\ DOMAIN u = DOMAIN h \cup {x} /\ u[x] = B /\ \A z \in DOMAIN h : u[z] = t[z]
      /\ u \in [DOMAIN g -> Seq(Token)]
  <2>1. Written(u, t, x, B)
    BY PutWritten
  <2>2. u = [z \in DOMAIN u |-> u[z]]
    BY DEF Put
  <2>3. DOMAIN t = DOMAIN h
    BY <1>1
  <2> HIDE DEF u
  <2>4. DOMAIN u = DOMAIN h \cup {x} /\ u[x] = B /\ \A z \in DOMAIN h : u[z] = t[z]
    BY <2>1, <2>3 DEF Written
  <2>5. \A z \in DOMAIN u : u[z] \in Seq(Token)
    BY <1>1, <1>2, <2>4
  <2> QED
    BY <1>4, <2>2, <2>4, <2>5
<1> HIDE DEF u
<1>6. /\ v \in NodeType(DOMAIN g) /\ v.type = "param" /\ v.path = <<path[i]>> /\ v.data = p
      /\ v.children = <<>> /\ v.wild = <<>> /\ v.indices = <<>> /\ Kids(v) = {}
  <2> DEFINE w == Node("param", <<path[i]>>, 1)
  <2>1. <<path[i]>> \in Seq(Token) /\ p \in Seq(Token)
    <3>1. path[i] \in Token
      BY <1>1, ElementOfSeq
    <3> QED
      BY <1>1, <3>1, PatternTokens
  <2>2. /\ w \in NodeType(DOMAIN g) /\ w.type = "param" /\ w.path = <<path[i]>>
        /\ w.children = <<>> /\ w.wild = <<>> /\ w.indices = <<>>
    <3>1. "param" \in {"static", "root", "param", "catchAll"} /\ 1 \in Nat
      OBVIOUS
    <3>2. Bare(w, DOMAIN g, "param", <<path[i]>>, 1)
      BY <2>1, <3>1, NewNode
    <3> HIDE DEF w
    <3> QED
      BY <3>2 DEF Bare
  <2>3. v = [w EXCEPT !.data = p]
    OBVIOUS
  <2> HIDE DEF w
  <2>4. /\ v \in NodeType(DOMAIN g) /\ v.type = "param" /\ v.path = <<path[i]>> /\ v.data = p
        /\ v.children = <<>> /\ v.wild = <<>> /\ v.indices = <<>>
    BY <2>1, <2>2, <2>3 DEF NodeType
  <2>5. Kids(v) = {}
    <3>1. Len(<<>>) = 0
      BY EmptySeq
    <3> QED
      BY <2>4, <3>1 DEF Kids
  <2> QED
    BY <2>4, <2>5
<1>7. Writes(h, t, n, path, np, g, u, x, Y)
  BY <1>1, <1>3, <1>4, <1>5, <1>6 DEF Writes
<1>8. g[n].path = np /\ x \in Kids(g[n])
  <2> HIDE DEF Y
  <2>1. Wrote(h, t, n, path, np, g, u, x, Y)
    BY <1>7, WritesFacts
  <2> QED
    BY <2>1 DEF Wrote
<1>9. End(g, u, n) = B /\ End(g, u, x) = p
  BY <1>1, <1>2, <1>4, <1>5, <1>6, <1>8 DEF End
<1>10. NodeOK(g, u, "/", x)
  <2>1. Len(v.path) = 1 /\ v.path[1] = path[i]
    BY <1>6
  <2> QED
    BY <1>4, <1>6, <2>1, ParamNode
<1>11. DataOK(g, u, S, x) /\ ~Blank(g[x])
  <2>1. v.path # <<>>
    <3>1. Len(v.path) = 1 /\ Len(<<>>) = 0
      BY <1>6, EmptySeq
    <3> QED
      BY <3>1
  <2> QED
    BY <1>4, <1>6, <1>9, <2>1 DEF DataOK, Blank
<1>12. OnWay(g, u, U, S, <<>>, Root, p, n)
  <2>1. <<p, x>> \in U /\ n \in DOMAIN g
    BY <1>1, <1>4
  <2> QED
    BY <1>1, <1>2, <1>8, <1>9, <2>1 DEF OnWay
<1>13. OnWay(g, u, U, S, <<>>, Root, p, x)
  <2>1. IsPrefix(p, p)
    <3>1. p \in Seq(Token)
      BY <1>1, PatternTokens
    <3> QED
      BY <3>1, PrefixFacts, LenProperties
  <2> QED
    BY <1>1, <1>4, <1>6, <1>9, <2>1 DEF OnWay
<1>14. Root \in DOMAIN g
  BY <1>4 DEF InsertsAt, Tree
<1> HIDE DEF OnWay
<1>15. WildcardRight(g, u, U, "/", S, <<>>, Root, Root, p, n, x, Y)
  BY <1>10, <1>11, <1>12, <1>13, <1>14 DEF WildcardRight
<1>16. U = T \cup {<<p, z>> : z \in {x} \cup Y}
  OBVIOUS
<1> HIDE DEF U, Y
<1>17. Tree(g, u, "/", S, Root) /\ Ways(g, u, U, S, <<>>, Root, Root)
  BY <1>7, <1>15, <1>16, WildcardTree
<1> QED
  BY <1>17 DEF RestsAt

\* Memory g is h with m written at n and the new nodes v and w.
AllWritten(g, h, n, m, x, v, y, w) ==
  /\ DOMAIN g = DOMAIN h \cup {x} \cup {y} /\ g[n] = m /\ g[x] = v /\ g[y] = w
  /\ \A z \in DOMAIN h : z # n => g[z] = h[z]

\* Three of them write all.
LEMMA PutAll ==
  ASSUME NEW h, NEW n \in DOMAIN h, NEW m, NEW x, x \notin DOMAIN h, NEW v, NEW y, y \notin DOMAIN h,
         y # x, NEW w
  PROVE  AllWritten(Put(Put(Put(h, n, m), x, v), y, w), h, n, m, x, v, y, w)
BY DEF Put, AllWritten

\* Texts u are t with a and b added.
Texts(u, D, t, x, y, a, b) ==
  /\ u \in [D \cup {x} \cup {y} -> Seq(Token)]
  /\ u[x] = a /\ u[y] = b /\ \A z \in D : u[z] = t[z]

\* The texts before two new nodes.
LEMMA TextsWritten ==
  ASSUME NEW D, NEW t, t \in [D -> Seq(Token)], NEW x, x \notin D, NEW y, y \notin D, y # x,
         NEW a, a \in Seq(Token), NEW b, b \in Seq(Token)
  PROVE  \E u : Texts(u, D, t, x, y, a, b)
<1> DEFINE u == [z \in D \cup {x} \cup {y} |-> IF z = x THEN a ELSE IF z = y THEN b ELSE t[z]]
<1>1. u \in [D \cup {x} \cup {y} -> Seq(Token)]
  OBVIOUS
<1>2. u[x] = a /\ u[y] = b /\ \A z \in D : u[z] = t[z]
  OBVIOUS
<1> HIDE DEF u
<1> QED
  BY <1>1, <1>2 DEF Texts

\* A ":name" in the pattern is followed by a slash.
LEMMA SlashFollows ==
  ASSUME NEW E \in Seq(Token), NEW path \in Seq(Token), NEW p \in Pattern, p = E \o path,
         NEW i \in 1 .. Len(path), i # Len(path), path[i] \in Wildcard, Valid(path, i)
  PROVE  path[i + 1] = "/"
<1>1. /\ Len(E) \in Nat /\ Len(path) \in Nat /\ Len(p) = Len(E) + Len(path)
      /\ \A j \in 1 .. Len(path) : p[Len(E) + j] = path[j]
  BY ConcatFacts, LenProperties
<1>2. i + 1 \in 1 .. Len(path) /\ i \in 1 .. Len(path)
  BY <1>1
<1>3. p[Len(E) + i] = path[i] /\ p[Len(E) + (i + 1)] = path[i + 1]
  BY <1>1, <1>2
<1>4. Len(E) + (i + 1) \in 2 .. Len(p) /\ (Len(E) + (i + 1)) - 1 = Len(E) + i
  BY <1>1, <1>2
<1>5. path[i + 1] \in Wildcard \cup {"/"}
  <2> DEFINE j == Len(E) + (i + 1)
  <2>1. j \in 2 .. Len(p) /\ p[j - 1] \in Wildcard
    BY <1>3, <1>4
  <2> HIDE DEF j
  <2>2. p[j] \in Wildcard \cup {"/"}
    BY <2>1, PatternAssumption
  <2> QED
    BY <1>3, <2>2 DEF j
<1>6. path[i + 1] \notin Wildcard
  <2> SUFFICES ASSUME path[i + 1] \in Wildcard PROVE FALSE
    OBVIOUS
  <2>1. i + 1 \in i + 1 .. Len(path)
    BY <1>1, <1>2
  <2>2. PICK k \in i .. i + 1 : path[k] = "/"
    BY <2>1 DEF Valid
  <2>3. k = i \/ k = i + 1
    BY <1>2, <2>2
  <2> QED
    BY <2>2, <2>3, TokenAssumption
<1> QED
  BY <1>5, <1>6

\* The pattern goes on after a ":name".
LEMMA ParamContinued ==
  ASSUME NEW h, NEW t, NEW T, NEW R, NEW p, NEW n, NEW path, InsertsAt(h, t, T, R, p, n, path),
         NEW i, i = FindWildcard(path), i > 0, path[i] \in Param, i # Len(path), Valid(path, i),
         NEW x, x \notin DOMAIN h, NEW y, y \notin DOMAIN h, y # x,
         NEW m, m = [h[n] EXCEPT !.wild = <<x>>,
                                 !.path = IF i > 1 THEN SubSeq(path, 1, i - 1) ELSE @],
         NEW v, v = [Node("param", <<path[i]>>, 1) EXCEPT !.children = <<y>>],
         NEW w, w = Node("static", <<>>, 1),
         NEW g, AllWritten(g, h, n, m, x, v, y, w)
  PROVE  \E u, U : InsertsAt(g, u, U, R, p, y, From(path, i))
<1> DEFINE np == IF i > 1 THEN SubSeq(path, 1, i - 1) ELSE h[n].path
           E == End(h, t, n)
           B == Before(E, path, i)
           A == Upto(E, path, i)
           rest == From(path, i)
           Y == {y}
           U == T \cup {<<p, z>> : z \in {x} \cup Y}
<1>1. /\ i \in 1 .. Len(path) /\ path \in Seq(Token) /\ n \in DOMAIN h /\ p \in Pattern
      /\ t \in [DOMAIN h -> Seq(Token)] /\ p = E \o path
      /\ E \in Seq(Token) /\ <<p, n>> \in T /\ t[n] \o np = B
      /\ IF Blank(h[n]) THEN np \in Seq(Char) /\ np # <<>> /\ np[1] = path[1]
         ELSE np = h[n].path
  <2>1. np = IF i > 1 THEN SubSeq(path, 1, i - 1) ELSE h[n].path
    OBVIOUS
  <2> HIDE DEF np
  <2>2. Placed(h, t, T, p, n, path, i, np)
    BY <2>1, WildcardPlace
  <2> QED
    BY <2>2 DEF Placed
<1>3. m = [h[n] EXCEPT !.wild = <<x>>, !.path = np]
  OBVIOUS
<1> HIDE DEF E, np
<1>2. /\ B \in Seq(Token) /\ IsPrefix(B, p) /\ A = B \o <<path[i]>> /\ A \in Seq(Token)
      /\ IsPrefix(A, p) /\ p = A \o rest
  <2>1. Cut(E, path, i, p)
    BY <1>1, CutFacts
  <2> QED
    BY <2>1 DEF Cut, Upto
<1>4. /\ DOMAIN g = DOMAIN h \cup {x} \cup {y} /\ g[n] = m /\ g[x] = v /\ g[y] = w
      /\ \A z \in DOMAIN h : z # n => g[z] = h[z]
  BY DEF AllWritten
<1>5. rest \in Seq(Token) /\ rest[1] = "/" /\ rest # <<>>
  <2>1. i \in 0 .. Len(path) /\ 1 \in 1 .. Len(path) - i /\ Len(path) \in Nat /\ Len(path) - i # 0
    BY <1>1, LenProperties
  <2>2. /\ rest \in Seq(Token) /\ Len(rest) = Len(path) - i /\ rest[1] = path[i + 1]
    BY <1>1, <2>1, SliceFacts, ZenonT(40)
  <2>3. path[i + 1] = "/"
    BY <1>1, SlashFollows DEF Wildcard
  <2> HIDE DEF rest
  <2> QED
    BY <2>1, <2>2, <2>3, EmptySeq
<1> HIDE DEF B, A, rest
<1>6. PICK u \in [DOMAIN g -> Seq(Token)] : u[x] = B /\ u[y] = A /\ \A z \in DOMAIN h : u[z] = t[z]
  <2> DEFINE D == DOMAIN h
  <2>1. t \in [D -> Seq(Token)] /\ x \notin D /\ y \notin D /\ DOMAIN g = D \cup {x} \cup {y}
    BY <1>1, <1>4
  <2> HIDE DEF D
  <2>2. PICK u : Texts(u, D, t, x, y, B, A)
    BY <1>2, <2>1, TextsWritten
  <2> QED
    BY <2>1, <2>2 DEF D, Texts
<1>7. /\ v \in NodeType(DOMAIN g) /\ v.type = "param" /\ v.path = <<path[i]>> /\ v.data = NoData
      /\ v.children = <<y>> /\ v.wild = <<>> /\ v.indices = <<>> /\ Kids(v) = {y}
  <2> DEFINE k == Node("param", <<path[i]>>, 1)
  <2>1. <<path[i]>> \in Seq(Token)
    <3>1. path[i] \in Token
      BY <1>1, ElementOfSeq
    <3> QED
      BY <3>1
  <2>2. Bare(k, DOMAIN g, "param", <<path[i]>>, 1)
    <3>1. "param" \in {"static", "root", "param", "catchAll"} /\ 1 \in Nat
      OBVIOUS
    <3> QED
      BY <2>1, <3>1, NewNode
  <2>3. v = [k EXCEPT !.children = <<y>>]
    OBVIOUS
  <2>4. <<y>> \in Seq(DOMAIN g)
    BY <1>4
  <2> HIDE DEF k
  <2>5. /\ k \in NodeType(DOMAIN g) /\ k.type = "param" /\ k.path = <<path[i]>> /\ k.data = NoData
        /\ k.wild = <<>> /\ k.indices = <<>>
    BY <2>2 DEF Bare
  <2>6. /\ v \in NodeType(DOMAIN g) /\ v.type = "param" /\ v.path = <<path[i]>> /\ v.data = NoData
        /\ v.children = <<y>> /\ v.wild = <<>> /\ v.indices = <<>>
    BY <2>3, <2>4, <2>5 DEF NodeType
  <2>7. Kids(v) = {y}
    <3>1. Len(<<>>) = 0 /\ Len(v.children) = 1 /\ v.children[1] = y
      BY <2>6, EmptySeq
    <3>2. {v.children[j] : j \in 1 .. Len(v.children)} = {y}
      BY <3>1
    <3>3. {v.wild[j] : j \in 1 .. Len(v.wild)} = {}
      BY <2>6, <3>1
    <3> QED
      BY <3>2, <3>3 DEF Kids
  <2> QED
    BY <2>6, <2>7
<1>8. /\ w \in NodeType(DOMAIN g) /\ w.type = "static" /\ w.path = <<>> /\ w.data = NoData
      /\ w.children = <<>> /\ w.wild = <<>> /\ w.indices = <<>> /\ Kids(w) = {}
  <2>1. "static" \in {"static", "root", "param", "catchAll"} /\ 1 \in Nat /\ <<>> \in Seq(Token)
    BY EmptySeq
  <2>2. Bare(Node("static", <<>>, 1), DOMAIN g, "static", <<>>, 1)
    BY <2>1, NewNode
  <2>3. Bare(w, DOMAIN g, "static", <<>>, 1)
    BY <2>2
  <2> QED
    BY <2>3 DEF Bare
<1>9. Writes(h, t, n, path, np, g, u, x, Y)
  BY <1>1, <1>3, <1>4, <1>6, <1>7, <1>8, ZenonT(40) DEF Writes
<1>10. g[n].path = np /\ x \in Kids(g[n])
  <2> HIDE DEF Y
  <2>1. Wrote(h, t, n, path, np, g, u, x, Y)
    BY <1>9, WritesFacts
  <2> QED
    BY <2>1 DEF Wrote
<1>11. End(g, u, n) = B /\ End(g, u, x) = A /\ End(g, u, y) = A
  <2>1. A \o <<>> = A
    BY <1>2, ConcatEmptySeq
  <2> QED
    BY <1>1, <1>2, <1>4, <1>6, <1>7, <1>8, <1>10, <2>1 DEF End
<1>12. Blank(g[y]) /\ Static(g[y]) /\ Idx(g, "/", y) = "/" /\ ~Blank(g[x])
  <2>1. Len(<<>>) = 0 /\ Len(v.children) = 1
    BY <1>7, EmptySeq
  <2> QED
    BY <1>4, <1>8, <2>1 DEF Blank, Static, Idx
<1>13. NodeOK(g, u, "/", x) /\ DataOK(g, u, R, x)
  <2>0. v.path = <<path[i]>>
    BY <1>7
  <2>1. Len(v.path) = 1 /\ v.path[1] = path[i]
    BY <2>0, Z3
  <2>2. /\ g[x].children = <<y>> /\ u[y] = End(g, u, x) /\ g[y].type = "static"
        /\ g[x] \in NodeType(DOMAIN g) /\ g[x].type = "param" /\ Len(g[x].path) = 1
        /\ g[x].path[1] \in Param /\ g[x].wild = <<>> /\ g[x].indices = <<>>
    BY <1>4, <1>6, <1>7, <1>8, <1>11, <2>1
  <2>3. NodeOK(g, u, "/", x)
    BY <1>12, <2>2, ParamNode
  <2> QED
    BY <1>4, <1>7, <2>3 DEF DataOK
<1>14. NodeOK(g, u, "/", y) /\ DataOK(g, u, R, y)
  <2>1. <<>> \in Seq(Char)
    BY EmptySeq
  <2> QED
    BY <1>4, <1>8, <1>12, <2>1, LeafOK, ZenonT(40) DEF DataOK
<1>15. OnWay(g, u, U, R, p, y, p, n)
  <2>1. <<p, x>> \in U /\ n \in DOMAIN g
    BY <1>1, <1>4
  <2> QED
    BY <1>1, <1>2, <1>10, <1>11, <2>1 DEF OnWay
<1>16. OnWay(g, u, U, R, p, y, p, x)
  <2>1. <<p, y>> \in U /\ x \in DOMAIN g /\ y \in Kids(g[x])
    BY <1>4, <1>7
  <2> QED
    BY <1>1, <1>2, <1>11, <2>1 DEF OnWay
<1>17. OnWay(g, u, U, R, p, y, p, y)
  BY <1>1, <1>2, <1>4, <1>11 DEF OnWay
<1> HIDE DEF OnWay
<1>18. WildcardRight(g, u, U, "/", R, p, y, y, p, n, x, Y)
  <2>1. y \in DOMAIN g
    BY <1>4
  <2> QED
    BY <1>12, <1>13, <1>14, <1>15, <1>16, <1>17, <2>1 DEF WildcardRight
<1>19. U = T \cup {<<p, z>> : z \in {x} \cup Y}
  OBVIOUS
<1>20. <<p, y>> \in U
  OBVIOUS
<1> HIDE DEF U, Y
<1>21. Tree(g, u, "/", R, y) /\ Ways(g, u, U, R, p, y, y)
  BY <1>9, <1>18, <1>19, WildcardTree
<1>22. InsertsAt(g, u, U, R, p, y, rest)
  BY <1>1, <1>2, <1>4, <1>5, <1>8, <1>11, <1>12, <1>20, <1>21, TokenAssumption DEF InsertsAt
<1> QED
  BY <1>22 DEF rest

\* The two nodes of a "*name".
LEMMA CatchAllNodes ==
  ASSUME NEW g, NEW u, NEW d, NEW x, NEW y,
         g[x] \in NodeType(DOMAIN g), g[x].type = "catchAll", g[x].path = <<>>,
         g[x].data = NoData, g[x].children = <<y>>, g[x].wild = <<>>,
         u[y] = End(g, u, x), g[y] \in NodeType(DOMAIN g), g[y].type = "catchAll",
         g[y].data # NoData, g[y].children = <<>>, g[y].wild = <<>>,
         NEW w \in CatchAll, g[y].path = <<"/", w>>
  PROVE  NodeOK(g, u, d, x) /\ NodeOK(g, u, d, y)
<1>1. Len(<<>>) = 0
  BY EmptySeq
<1>2. Len(g[x].children) = 1 /\ g[x].children[1] = y
  OBVIOUS
<1>3. g[y].path # <<>>
  <2>1. Len(g[y].path) = 2
    OBVIOUS
  <2> QED
    BY <1>1, <2>1
<1>4. ChildrenOK(g, u, x) /\ ChildrenOK(g, u, y)
  <2>1. \A i \in 1 .. Len(g[x].children) : i = 1
    BY <1>2
  <2>2. ChildrenOK(g, u, x)
    BY <1>2, <2>1 DEF ChildrenOK
  <2>3. ChildrenOK(g, u, y)
    BY <1>1 DEF ChildrenOK
  <2> QED
    BY <2>2, <2>3
<1>5. WildOK(g, u, x) /\ WildOK(g, u, y)
  BY <1>1 DEF WildOK
<1>6. IndicesOK(g, d, x) /\ StaticOK(g, x) /\ ParamOK(g, d, x)
  BY DEF IndicesOK, StaticOK, ParamOK, Static
<1>7. IndicesOK(g, d, y) /\ StaticOK(g, y) /\ ParamOK(g, d, y)
  BY DEF IndicesOK, StaticOK, ParamOK, Static
<1>8. CatchAllOK(g, x) /\ CatchAllOK(g, y)
  BY <1>2, <1>3 DEF CatchAllOK
<1> QED
  BY <1>4, <1>5, <1>6, <1>7, <1>8 DEF NodeOK

\* What is before the slash of a "*name" that ends the path, in a blank node.
CatchAllPlaced(h, t, T, p, n, path, i, np) ==
  /\ path \in Seq(Token) /\ n \in DOMAIN h /\ p \in Pattern /\ path[i] \in CatchAll
  /\ t \in [DOMAIN h -> Seq(Token)] /\ t[n] \in Seq(Token) /\ <<p, n>> \in T /\ Blank(h[n])
  /\ np \in Seq(Char) /\ np \in Seq(Token) /\ (IF np = <<>> THEN path[1] = "/" ELSE np[1] = path[1])
  /\ From(path, i - 2) = <<"/", path[i]>> /\ From(path, i - 2) \in Seq(Token)
  /\ p = (t[n] \o np) \o From(path, i - 2) /\ t[n] \o np \in Seq(Token)
  /\ IsPrefix(t[n] \o np, p)

\* So it is when a "*name" is inserted.
LEMMA CatchAllPlace ==
  ASSUME NEW h, NEW t, NEW T, NEW R, NEW p, NEW n, NEW path, InsertsAt(h, t, T, R, p, n, path),
         NEW i, i = FindWildcard(path), i > 1, path[i] \in CatchAll, i = Len(path),
         path[i - 1] = "/", NEW np, np = SubSeq(path, 1, i - 2)
  PROVE  CatchAllPlaced(h, t, T, p, n, path, i, np)
<1> DEFINE a == SubSeq(path, 1, i - 1)
           E == End(h, t, n)
           r == From(path, i - 2)
<1>1. /\ path \in Seq(Token) /\ path # <<>> /\ n \in DOMAIN h /\ h[n] \in NodeType(DOMAIN h)
      /\ t \in [DOMAIN h -> Seq(Token)] /\ p = E \o path /\ p \in Pattern /\ <<p, n>> \in T
      /\ IF Blank(h[n]) THEN path[1] \in Char ELSE path[1] \in Wildcard
  BY DEF InsertsAt, Tree, NodeOK
<1>2. /\ Len(path) \in Nat /\ i \in 1 .. Len(path) /\ a \in Seq(Char) /\ i \in Nat
      /\ i - 1 \in 0 .. Len(path) /\ i - 2 \in 0 .. Len(path)
  <2>1. Len(path) \in Nat
    BY <1>1, LenProperties
  <2>2. i \in 0 .. Len(path) /\ i > 0 /\ a \in Seq(Char)
    <3>1. /\ FindWildcard(path) \in 0 .. Len(path)
          /\ FindWildcard(path) > 0 => SubSeq(path, 1, FindWildcard(path) - 1) \in Seq(Char)
      BY <1>1, WildcardFacts
    <3>2. i \in 0 .. Len(path)
      BY <3>1
    <3>3. i > 0
      BY <2>1, <3>2
    <3> QED
      BY <3>1, <3>2, <3>3
  <2> QED
    BY <2>1, <2>2
<1>3. /\ Len(a) = i - 1 /\ \A j \in 1 .. i - 1 : a[j] = path[j]
  BY <1>1, <1>2, SliceFacts
<1>4. \A j \in 1 .. i - 1 : path[j] \in Char
  <2> HIDE DEF a
  <2>1. ASSUME NEW j \in 1 .. i - 1 PROVE a[j] \in Char
    BY <1>2, <1>3, ElementOfSeq
  <2> QED
    BY <1>3, <2>1
<1> HIDE DEF a
<1>5. Blank(h[n])
  <2>1. 1 \in 1 .. i - 1
    BY <1>2
  <2> QED
    BY <1>1, <1>4, <2>1, TokenAssumption
<1>6. t[n] \in Seq(Token) /\ E = t[n]
  <2>1. t[n] \in Seq(Token)
    BY <1>1
  <2> QED
    BY <1>5, <2>1, ConcatEmptySeq DEF End, Blank
<1>7. /\ np \in Seq(Token) /\ Len(np) = i - 2 /\ \A j \in 1 .. i - 2 : np[j] = path[j]
      /\ r \in Seq(Token) /\ Len(r) = Len(path) - (i - 2)
      /\ \A j \in 1 .. Len(path) - (i - 2) : r[j] = path[(i - 2) + j]
      /\ np \o r = path
  <2> DEFINE k == i - 2
  <2>1. k \in 0 .. Len(path) /\ np = SubSeq(path, 1, k) /\ r = From(path, k)
    BY <1>2
  <2> HIDE DEF k, r
  <2>2. /\ np \in Seq(Token) /\ Len(np) = k /\ \A j \in 1 .. k : np[j] = path[j]
        /\ r \in Seq(Token) /\ Len(r) = Len(path) - k
        /\ \A j \in 1 .. Len(path) - k : r[j] = path[k + j]
        /\ np \o r = path
    BY <1>1, <2>1, SliceFacts, ZenonT(40)
  <2> QED
    BY <2>2 DEF k
<1> HIDE DEF E, r
<1>8. np \in Seq(Char)
  <2>1. \A j \in 1 .. i - 2 : path[j] \in Char
    BY <1>2, <1>4
  <2> QED
    BY <1>1, <1>2, <2>1, SubSeqProperties
<1>9. IF np = <<>> THEN path[1] = "/" ELSE np[1] = path[1]
  <2>1. CASE i = 2
    <3>1. path[1] = "/"
      BY <2>1
    <3>2. np = <<>>
      BY <1>7, <2>1, EmptySeq
    <3> QED
      BY <3>1, <3>2
  <2>2. CASE i > 2
    <3>0. Len(np) = i - 2 /\ i \in Nat
      BY <1>2, <1>7
    <3>1. 1 \in 1 .. i - 2 /\ Len(np) # 0
      BY <2>2, <3>0
    <3>2. np[1] = path[1] /\ np # <<>>
      BY <1>7, <3>1, EmptySeq
    <3> QED
      BY <3>2
  <2> QED
    BY <1>2, <2>1, <2>2
<1>10. r = <<"/", path[i]>>
  <2>1. Len(r) = 2
    BY <1>2, <1>7
  <2>2. r[1] = "/" /\ r[2] = path[i]
    <3>1. 1 \in 1 .. Len(path) - (i - 2) /\ (i - 2) + 1 = i - 1
      BY <1>2
    <3>2. 2 \in 1 .. Len(path) - (i - 2) /\ (i - 2) + 2 = i
      BY <1>2
    <3> QED
      BY <1>7, <3>1, <3>2
  <2>3. <<"/", path[i]>> \in Seq(Token)
    <3>1. path[i] \in Token /\ "/" \in Token
      BY <1>1, <1>2, ElementOfSeq, TokenAssumption DEF Token
    <3> QED
      BY <3>1
  <2> DEFINE s == <<"/", path[i]>>
  <2>4. s \in Seq(Token) /\ Len(s) = 2 /\ s[1] = "/" /\ s[2] = path[i]
    BY <2>3
  <2> HIDE DEF s
  <2>5. \A j \in 1 .. Len(r) : r[j] = s[j]
    BY <2>1, <2>2, <2>4
  <2>6. r = s
    BY <1>7, <2>1, <2>4, <2>5, SeqEqual
  <2> QED
    BY <2>6 DEF s
<1>11. t[n] \o np \in Seq(Token) /\ p = (t[n] \o np) \o r
  <2>1. t[n] \in Seq(Token) /\ np \in Seq(Token) /\ r \in Seq(Token)
    BY <1>6, <1>7
  <2>2. p = t[n] \o (np \o r)
    BY <1>1, <1>6, <1>7
  <2>3. t[n] \o np \in Seq(Token) /\ (t[n] \o np) \o r = t[n] \o (np \o r)
    BY <2>1, TokenConcat
  <2> QED
    BY <2>2, <2>3
<1>12. IsPrefix(t[n] \o np, p)
  <2> DEFINE b == t[n] \o np
  <2>1. b \in Seq(Token) /\ p = b \o r
    BY <1>11
  <2> HIDE DEF b
  <2>2. IsPrefix(b, p)
    BY <1>7, <2>1, ConcatFacts
  <2> QED
    BY <2>2 DEF b
<1> QED
  BY <1>1, <1>5, <1>6, <1>7, <1>8, <1>9, <1>10, <1>11, <1>12 DEF CatchAllPlaced, r

\* The pattern ends with a "*name".
LEMMA CatchAllInserted ==
  ASSUME NEW h, NEW t, NEW T, NEW R, NEW p, NEW n, NEW path, InsertsAt(h, t, T, R, p, n, path),
         NEW i, i = FindWildcard(path), i > 1, path[i] \in CatchAll, i = Len(path),
         path[i - 1] = "/",
         NEW x, x \notin DOMAIN h, NEW y, y \notin DOMAIN h, y # x,
         NEW m, m = [h[n] EXCEPT !.wild = <<x>>, !.path = SubSeq(path, 1, i - 2)],
         NEW v, v = [Node("catchAll", <<>>, 1) EXCEPT !.children = <<y>>],
         NEW w, w = [Node("catchAll", From(path, i - 2), 1) EXCEPT !.data = p],
         NEW g, AllWritten(g, h, n, m, x, v, y, w)
  PROVE  \E u, U : RestsAt(g, u, U, R \cup {p})
<1> DEFINE np == SubSeq(path, 1, i - 2)
           B == t[n] \o np
           r == From(path, i - 2)
           S == R \cup {p}
           Y == {y}
           U == T \cup {<<p, z>> : z \in {x} \cup Y}
<1>1. /\ path \in Seq(Token) /\ n \in DOMAIN h /\ p \in Pattern /\ path[i] \in CatchAll
      /\ t \in [DOMAIN h -> Seq(Token)] /\ t[n] \in Seq(Token) /\ <<p, n>> \in T /\ Blank(h[n])
      /\ np \in Seq(Char) /\ np \in Seq(Token) /\ (IF np = <<>> THEN path[1] = "/" ELSE np[1] = path[1])
      /\ r = <<"/", path[i]>> /\ r \in Seq(Token) /\ p = B \o r /\ B \in Seq(Token) /\ IsPrefix(B, p)
  <2>1. np = SubSeq(path, 1, i - 2)
    OBVIOUS
  <2>2. CatchAllPlaced(h, t, T, p, n, path, i, np)
    <3> HIDE DEF np
    <3> QED
      BY <2>1, CatchAllPlace
  <2> QED
    BY <2>2 DEF CatchAllPlaced
<1>2. m = [h[n] EXCEPT !.wild = <<x>>, !.path = np]
  OBVIOUS
<1>3. w = [Node("catchAll", r, 1) EXCEPT !.data = p]
  OBVIOUS
<1> HIDE DEF np, r
<1>4. /\ DOMAIN g = DOMAIN h \cup {x} \cup {y} /\ g[n] = m /\ g[x] = v /\ g[y] = w
      /\ \A z \in DOMAIN h : z # n => g[z] = h[z]
  BY DEF AllWritten
<1>5. B \o <<>> = B
  BY <1>1, ConcatEmptySeq
<1> HIDE DEF B
<1>6. PICK u \in [DOMAIN g -> Seq(Token)] : u[x] = B /\ u[y] = B /\ \A z \in DOMAIN h : u[z] = t[z]
  <2> DEFINE D == DOMAIN h
  <2>1. t \in [D -> Seq(Token)] /\ x \notin D /\ y \notin D /\ DOMAIN g = D \cup {x} \cup {y}
    BY <1>1, <1>4
  <2> HIDE DEF D
  <2>2. PICK u : Texts(u, D, t, x, y, B, B)
    BY <1>1, <2>1, TextsWritten
  <2> QED
    BY <2>1, <2>2 DEF D, Texts
<1>7. "catchAll" \in {"static", "root", "param", "catchAll"} /\ 1 \in Nat /\ <<>> \in Seq(Token)
  BY EmptySeq
<1>8. /\ v \in NodeType(DOMAIN g) /\ v.type = "catchAll" /\ v.path = <<>> /\ v.data = NoData
      /\ v.children = <<y>> /\ v.wild = <<>> /\ Kids(v) = {y}
  <2> DEFINE k == Node("catchAll", <<>>, 1)
  <2>1. Bare(k, DOMAIN g, "catchAll", <<>>, 1)
    BY <1>7, NewNode
  <2>2. v = [k EXCEPT !.children = <<y>>]
    OBVIOUS
  <2>3. <<y>> \in Seq(DOMAIN g)
    BY <1>4
  <2> HIDE DEF k
  <2>4. /\ k \in NodeType(DOMAIN g) /\ k.type = "catchAll" /\ k.path = <<>> /\ k.data = NoData
        /\ k.wild = <<>>
    BY <2>1 DEF Bare
  <2>5. /\ v \in NodeType(DOMAIN g) /\ v.type = "catchAll" /\ v.path = <<>> /\ v.data = NoData
        /\ v.children = <<y>> /\ v.wild = <<>>
    BY <2>2, <2>3, <2>4 DEF NodeType
  <2>6. Kids(v) = {y}
    <3>1. Len(<<>>) = 0 /\ Len(v.children) = 1 /\ v.children[1] = y
      BY <2>5, EmptySeq
    <3>2. {v.children[j] : j \in 1 .. Len(v.children)} = {y}
      BY <3>1
    <3>3. {v.wild[j] : j \in 1 .. Len(v.wild)} = {}
      BY <2>5, <3>1
    <3> QED
      BY <3>2, <3>3 DEF Kids
  <2> QED
    BY <2>5, <2>6
<1>9. p \in Seq(Token)
  BY <1>1, PatternTokens
<1>10. p # NoData
  BY <1>1, PatternAssumption DEF NoData
<1>11. /\ w \in NodeType(DOMAIN g) /\ w.type = "catchAll" /\ w.path = r /\ w.data = p
       /\ w.children = <<>> /\ w.wild = <<>> /\ Kids(w) = {}
  <2> DEFINE k == Node("catchAll", r, 1)
  <2>1. Bare(k, DOMAIN g, "catchAll", r, 1)
    BY <1>1, <1>7, NewNode
  <2>2. w = [k EXCEPT !.data = p]
    BY <1>3
  <2> HIDE DEF k
  <2>3. /\ k \in NodeType(DOMAIN g) /\ k.type = "catchAll" /\ k.path = r
        /\ k.children = <<>> /\ k.wild = <<>>
    BY <2>1 DEF Bare
  <2>4. /\ w \in NodeType(DOMAIN g) /\ w.type = "catchAll" /\ w.path = r /\ w.data = p
        /\ w.children = <<>> /\ w.wild = <<>>
    BY <1>9, <2>2, <2>3 DEF NodeType
  <2>5. Kids(w) = {}
    <3>1. Len(<<>>) = 0
      BY EmptySeq
    <3> QED
      BY <2>4, <3>1 DEF Kids
  <2> QED
    BY <2>4, <2>5
<1>12. Writes(h, t, n, path, np, g, u, x, Y)
  BY <1>1, <1>2, <1>4, <1>6, <1>8, <1>11, ZenonT(40) DEF Writes, B
<1>13. g[n].path = np /\ x \in Kids(g[n])
  <2> HIDE DEF Y
  <2>1. Wrote(h, t, n, path, np, g, u, x, Y)
    BY <1>12, WritesFacts
  <2> QED
    BY <2>1 DEF Wrote
<1>14. End(g, u, n) = B
  BY <1>1, <1>6, <1>13 DEF End, B
<1>15. End(g, u, x) = B
  BY <1>4, <1>5, <1>6, <1>8 DEF End
<1>16. End(g, u, y) = p
  BY <1>1, <1>4, <1>6, <1>11 DEF End
<1>17. NodeOK(g, u, "/", x) /\ NodeOK(g, u, "/", y)
  <2>1. g[y].path = <<"/", path[i]>>
    BY <1>1, <1>4, <1>11
  <2>2. /\ g[x] \in NodeType(DOMAIN g) /\ g[x].type = "catchAll" /\ g[x].path = <<>>
        /\ g[x].data = NoData /\ g[x].children = <<y>> /\ g[x].wild = <<>>
    BY <1>4, <1>8
  <2>3. /\ u[y] = End(g, u, x) /\ g[y] \in NodeType(DOMAIN g) /\ g[y].type = "catchAll"
        /\ g[y].data # NoData /\ g[y].children = <<>> /\ g[y].wild = <<>>
    BY <1>4, <1>6, <1>10, <1>11, <1>15
  <2> QED
    BY <1>1, <2>1, <2>2, <2>3, CatchAllNodes
<1>18. DataOK(g, u, S, x) /\ DataOK(g, u, S, y)
  BY <1>4, <1>8, <1>11, <1>16 DEF DataOK
<1>19. ~Blank(g[x]) /\ ~Blank(g[y])
  <2>1. Len(v.children) = 1 /\ Len(<<>>) = 0
    BY <1>8, EmptySeq
  <2>2. w.path = <<"/", path[i]>>
    BY <1>1, <1>11
  <2>3. Len(w.path) = 2
    <3> DEFINE s == <<"/", path[i]>>
    <3>1. Len(s) = 2
      OBVIOUS
    <3>2. w.path = s
      BY <2>2
    <3> HIDE DEF s
    <3> QED
      BY <3>1, <3>2
  <2>4. v.children # <<>>
    BY <2>1
  <2>5. w.path # <<>>
    <3>1. w.path \in Seq(Token)
      BY <1>1, <1>11
    <3> QED
      BY <2>3, <3>1, EmptySeq
  <2> QED
    BY <1>4, <2>4, <2>5 DEF Blank
<1>20. OnWay(g, u, U, S, <<>>, Root, p, n)
  <2>1. <<p, x>> \in U /\ n \in DOMAIN g
    BY <1>1, <1>4
  <2> QED
    BY <1>1, <1>13, <1>14, <2>1 DEF OnWay
<1>21. OnWay(g, u, U, S, <<>>, Root, p, x)
  <2>1. <<p, y>> \in U /\ x \in DOMAIN g /\ y \in Kids(g[x])
    BY <1>4, <1>8
  <2> QED
    BY <1>1, <1>15, <2>1 DEF OnWay
<1>22. OnWay(g, u, U, S, <<>>, Root, p, y)
  <2>1. IsPrefix(p, p)
    BY <1>9, PrefixFacts, LenProperties
  <2> QED
    BY <1>1, <1>4, <1>11, <1>16, <2>1 DEF OnWay
<1>23. Root \in DOMAIN g
  BY <1>4 DEF InsertsAt, Tree
<1> HIDE DEF OnWay
<1>24. WildcardRight(g, u, U, "/", S, <<>>, Root, Root, p, n, x, Y)
  BY <1>17, <1>18, <1>19, <1>20, <1>21, <1>22, <1>23 DEF WildcardRight
<1>25. U = T \cup {<<p, z>> : z \in {x} \cup Y}
  OBVIOUS
<1> HIDE DEF U, Y
<1>26. Tree(g, u, "/", S, Root) /\ Ways(g, u, U, S, <<>>, Root, Root)
  BY <1>12, <1>24, <1>25, WildcardTree
<1> QED
  BY <1>26 DEF RestsAt

\* At the start there is an empty tree.
LEMMA InitRests == Init => Inv
<1> SUFFICES ASSUME Init PROVE Inv
  OBVIOUS
<1> DEFINE m == Node("static", <<>>, 0)
           t == [x \in {Root} |-> <<>>]
<1>1. node = [x \in {Root} |-> m] /\ routes = {} /\ call = Idle
  BY DEF Init
<1>2. DOMAIN node = {Root} /\ node[Root] = m
  BY <1>1
<1>3. <<>> \in Seq(Token) /\ "static" \in {"static", "root", "param", "catchAll"} /\ 0 \in Nat
  BY EmptySeq
<1>4. Bare(m, DOMAIN node, "static", <<>>, 0)
  BY <1>3, NewNode
<1>5. t \in [DOMAIN node -> Seq(Token)] /\ t[Root] = <<>>
  BY <1>2, <1>3
<1> HIDE DEF m, t
<1>6. /\ m \in NodeType(DOMAIN node) /\ m.type = "static" /\ m.path = <<>> /\ m.children = <<>>
      /\ m.wild = <<>> /\ m.indices = <<>> /\ m.data = NoData /\ Kids(m) = {}
  BY <1>4 DEF Bare
<1>7. Static(m) /\ Blank(m)
  BY <1>6 DEF Static, Blank
<1>8. NodeOK(node, t, "/", Root)
  <2>1. <<>> \in Seq(Char)
    BY EmptySeq
  <2> QED
    BY <1>2, <1>6, <1>7, <2>1, LeafOK
<1>9. Tree(node, t, "/", routes, Root)
  <2>1. \A x \in DOMAIN node : x = Root
    BY <1>2
  <2>2. Apart(node)
    BY <1>2, <1>6, <2>1 DEF Apart
  <2>3. DataOK(node, t, routes, Root) /\ Idx(node, "/", Root) = "/"
    BY <1>2, <1>6, <1>7 DEF DataOK, Idx
  <2> QED
    BY <1>2, <1>5, <1>7, <1>8, <2>1, <2>2, <2>3 DEF Tree
<1>10. Ways(node, t, {}, routes, <<>>, Root, Root)
  BY <1>1, <1>2, <1>7 DEF Ways
<1>11. \E u, T : RestsAt(node, u, T, routes)
  BY <1>9, <1>10 DEF RestsAt
<1> QED
  BY <1>1, <1>11 DEF Inv, Idle

\* The walk goes on.
LEMMA ContinueWalk ==
  ASSUME Inv, NEW h, NEW x, NEW rest, Continue("walk", h, x, rest), NEW t, NEW T,
         WalksAt(h, t, T, routes, call.pattern, x, rest)
  PROVE  Inv'
BY DEF Inv, Continue

\* The insertion goes on.
LEMMA ContinueInsert ==
  ASSUME Inv, NEW h, NEW x, NEW rest, Continue("insert", h, x, rest), NEW t, NEW T,
         InsertsAt(h, t, T, routes, call.pattern, x, rest)
  PROVE  Inv'
BY DEF Inv, Continue

\* The tree is at rest again, with one more route.
LEMMA ReturnRests ==
  ASSUME Inv, call.pattern \in Pattern, NEW h, Return(h), NEW t, NEW T,
         RestsAt(h, t, T, routes \cup {call.pattern})
  PROVE  Inv'
BY DEF Inv, Return, Idle

\* A panic claims nothing.
LEMMA PanicHolds ==
  ASSUME Inv, NEW h, Panic(h)
  PROVE  Inv'
BY DEF Inv, Panic, Idle

\* A route is registered.
LEMMA AddRouteStep ==
  ASSUME Inv, NEW p \in Pattern, AddRoute(p)
  PROVE  Inv'
<1> DEFINE m == [node[Root] EXCEPT !.priority = @ + 1,
                                   !.type = IF Blank(node[Root]) THEN "root" ELSE @]
           g == Put(node, Root, m)
<1>1. PICK t, T : RestsAt(node, t, T, routes)
  BY DEF Inv, AddRoute
<1>2. Written(g, node, Root, m)
  BY PutWritten
<1>3. /\ node' = g /\ routes' = routes
      /\ call' = [loop |-> IF Blank(node[Root]) THEN "insert" ELSE "walk", n |-> Root, path |-> p,
                  pattern |-> p]
  BY DEF AddRoute
<1>4. m = [node[Root] EXCEPT !.priority = @ + 1,
                             !.type = IF Blank(node[Root]) THEN "root" ELSE @]
  OBVIOUS
<1> HIDE DEF m, g
<1>5. IF Blank(node[Root]) THEN \E V : InsertsAt(g, t, V, routes, p, Root, p)
      ELSE WalksAt(g, t, T, routes, p, Root, p)
  BY <1>1, <1>2, <1>4, RouteAdded
<1>6. CASE Blank(node[Root])
  <2>1. PICK V : InsertsAt(g, t, V, routes, p, Root, p)
    BY <1>5, <1>6
  <2>2. call' = [loop |-> "insert", n |-> Root, path |-> p, pattern |-> p]
    BY <1>3, <1>6
  <2> QED
    BY <1>3, <2>1, <2>2 DEF Inv
<1>7. CASE ~Blank(node[Root])
  <2>1. WalksAt(g, t, T, routes, p, Root, p)
    BY <1>5, <1>7
  <2>2. call' = [loop |-> "walk", n |-> Root, path |-> p, pattern |-> p]
    BY <1>3, <1>7
  <2> QED
    BY <1>3, <2>1, <2>2 DEF Inv
<1> QED
  BY <1>6, <1>7

\* A turn of the walk begins at the end of a node's path, the edge split where needed.
LEMMA EdgeStand ==
  ASSUME Inv, Walking
  PROVE  \E t, T : StandsAt(Edge, t, T, routes, call.pattern, call.n, Rest)
<1>1. PICK t, T : WalksAt(node, t, T, routes, call.pattern, call.n, call.path)
  BY DEF Inv, Walking
<1>2. LET i == SharedLength(call.path, node[call.n].path)
          g == IF i < Len(node[call.n].path) THEN Split(node, call.n, i, Above(Len(Rest))) ELSE node
      IN  \E u, U : StandsAt(g, u, U, routes, call.pattern, call.n, From(call.path, i))
  BY <1>1, EdgeStands
<1> QED
  BY <1>2 DEF Edge, Rest, Shared

\* What a registration stands at the end of: a node with its children.
LEMMA StandFacts ==
  ASSUME NEW h, NEW t, NEW T, NEW R, NEW p, NEW n, NEW rest, StandsAt(h, t, T, R, p, n, rest)
  PROVE  /\ p \in Pattern /\ n \in DOMAIN h /\ NodeOK(h, t, "/", n)
         /\ h[n] \in NodeType(DOMAIN h) /\ h[n].type # "catchAll"
         /\ \A x \in Kids(h[n]) :
              /\ x \in DOMAIN h /\ ~Blank(h[x]) /\ Idx(h, "/", x) = IndexOf(h[x])
              /\ \A z \in DOMAIN h : x \in Kids(h[z]) => z = n
         /\ \A i \in 1 .. Len(h[n].children) :
              h[n].children[i] \in Kids(h[n]) /\ Static(h[h[n].children[i]])
<1>1. /\ Tree(h, t, "/", R, n) /\ ~Blank(h[n]) /\ p \in Pattern
      /\ Static(h[n]) \/ h[n].type = "param"
  BY DEF StandsAt
<1>2. /\ n \in DOMAIN h /\ \A x \in DOMAIN h : NodeOK(h, t, "/", x) /\ (Blank(h[x]) => x = n)
  BY <1>1 DEF Tree
<1>3. NodeOK(h, t, "/", n) /\ h[n] \in NodeType(DOMAIN h) /\ h[n].type # "catchAll"
  BY <1>1, <1>2 DEF NodeOK, Static
<1>4. ASSUME NEW x \in Kids(h[n])
      PROVE  /\ x \in DOMAIN h /\ ~Blank(h[x]) /\ Idx(h, "/", x) = IndexOf(h[x])
             /\ \A z \in DOMAIN h : x \in Kids(h[z]) => z = n
  <2>1. /\ x \in DOMAIN h /\ x # n
        /\ \A z \in DOMAIN h : x \in Kids(h[z]) => z = n
    BY <1>1, <1>2, KidFacts
  <2>2. ~Blank(h[x])
    BY <1>2, <2>1
  <2> QED
    BY <2>1, <2>2 DEF Idx
<1>5. ASSUME NEW i \in 1 .. Len(h[n].children)
      PROVE  h[n].children[i] \in Kids(h[n]) /\ Static(h[h[n].children[i]])
  BY <1>3 DEF Kids, NodeOK, ChildrenOK, Static
<1> QED
  BY <1>1, <1>2, <1>3, <1>4, <1>5

\* The path ends at a node.
LEMMA WalkEndStep ==
  ASSUME Inv, WalkEnd
  PROVE  Inv'
<1> DEFINE g == Edge
           p == call.pattern
           n == call.n
           m == [g[n] EXCEPT !.data = p]
<1>1. PICK t, T : StandsAt(g, t, T, routes, p, n, Rest)
  BY EdgeStand DEF WalkEnd
<1>2. Rest = <<>> /\ (IF g[n].data # NoData THEN Panic(g) ELSE Return(Put(g, n, m)))
  BY DEF WalkEnd, Here
<1>3. m = [g[n] EXCEPT !.data = p]
  OBVIOUS
<1>4. p \in Pattern
  BY <1>1 DEF StandsAt
<1>5. Written(Put(g, n, m), g, n, m)
  BY PutWritten
<1> HIDE DEF g, m
<1>6. CASE g[n].data = NoData
  <2> DEFINE k == Put(g, n, m)
  <2>1. StandsAt(g, t, T, routes, p, n, <<>>) /\ Written(k, g, n, m) /\ Return(k)
    BY <1>1, <1>2, <1>5, <1>6
  <2> HIDE DEF k, p, n
  <2>2. RestsAt(k, t, T, routes \cup {p})
    BY <1>3, <1>6, <2>1, EndRests
  <2> QED
    BY <1>4, <2>1, <2>2, ReturnRests DEF p
<1>7. CASE g[n].data # NoData
  BY <1>2, <1>7, PanicHolds
<1> QED
  BY <1>6, <1>7

\* A wildcard of the path is the one the node has.
LEMMA WalkWildcardStep ==
  ASSUME Inv, WalkWildcard
  PROVE  Inv'
<1> DEFINE g == Edge
           p == call.pattern
           n == call.n
           rest == Rest
           x == g[n].wild[1]
           k == Count(g, x)
<1>1. PICK t, T : StandsAt(g, t, T, routes, p, n, rest)
  BY EdgeStand DEF WalkWildcard
<1>2. /\ rest # <<>> /\ rest[1] \in Wildcard /\ g[n].wild # <<>>
      /\ IF /\ g[x].path = <<rest[1]>> /\ g[x].type # "catchAll"
            /\ Len(rest) = 1 \/ rest[2] = "/"
         THEN Continue("walk", k, x, rest) ELSE Panic(k)
  BY DEF WalkWildcard, Here
<1>3. k = Count(g, x)
  OBVIOUS
<1> HIDE DEF g, k, rest
<1>4. CASE /\ g[x].path = <<rest[1]>> /\ g[x].type # "catchAll"
           /\ Len(rest) = 1 \/ rest[2] = "/"
  <2>1. Continue("walk", k, x, rest)
    BY <1>2, <1>4
  <2>2. /\ n \in DOMAIN g /\ NodeOK(g, t, "/", n) /\ g[n] \in NodeType(DOMAIN g)
        /\ \A y \in Kids(g[n]) : /\ y \in DOMAIN g
                                 /\ \A z \in DOMAIN g : y \in Kids(g[z]) => z = n
        /\ \A i \in 1 .. Len(g[n].children) : Static(g[g[n].children[i]])
    BY <1>1, StandFacts
  <2>3. 1 \in 1 .. Len(g[n].wild)
    <3>1. g[n].wild \in Seq(DOMAIN g)
      BY <2>2 DEF NodeType
    <3> QED
      BY <1>2, <3>1, EmptySeq, LenProperties
  <2>4. x \in Kids(g[n]) /\ x \in DOMAIN g
    BY <2>2, <2>3 DEF Kids
  <2>5. g[x].type = "param"
    <3>1. g[x].type \in {"param", "catchAll"}
      BY <2>2, <2>3 DEF NodeOK, WildOK
    <3> QED
      BY <1>4, <3>1
  <2>6. ~Ordered(g, x)
    <3> SUFFICES ASSUME NEW z \in DOMAIN g, NEW i \in 1 .. Len(g[z].children), g[z].children[i] = x
                 PROVE  FALSE
      BY DEF Ordered
    <3>1. x \in Kids(g[z])
      BY DEF Kids
    <3>2. z = n
      BY <2>2, <2>4, <3>1
    <3>3. Static(g[x])
      BY <2>2, <3>2
    <3> QED
      BY <2>5, <3>3 DEF Static
  <2>7. rest[1] = g[x].path[1]
    BY <1>4
  <2>8. Tree(g, t, "/", routes, n) /\ Ways(g, t, T, routes, p, n, n)
    BY <1>1 DEF StandsAt
  <2> HIDE DEF x, n, p
  <2>9. Counted(g, t, T, "/", routes, p, n, n, x, Count(g, x))
    BY <2>4, <2>6, <2>8, CountTree
  <2>10. Counted(g, t, T, "/", routes, p, n, n, x, k)
    BY <1>3, <2>9
  <2>11. WalksAt(k, t, T, routes, p, x, rest)
    BY <1>1, <1>2, <1>4, <2>4, <2>5, <2>7, <2>10, WalkTo
  <2> QED
    BY <2>1, <2>11, ContinueWalk DEF p
<1>5. CASE ~(/\ g[x].path = <<rest[1]>> /\ g[x].type # "catchAll"
             /\ Len(rest) = 1 \/ rest[2] = "/")
  BY <1>2, <1>5, PanicHolds
<1> QED
  BY <1>4, <1>5

\* A wildcard of the path is the first one after the node.
LEMMA WalkNewWildcardStep ==
  ASSUME Inv, WalkNewWildcard
  PROVE  Inv'
<1> DEFINE g == Edge
           p == call.pattern
           n == call.n
           rest == Rest
<1>1. PICK t, T : StandsAt(g, t, T, routes, p, n, rest)
  BY EdgeStand DEF WalkNewWildcard
<1>2. /\ rest # <<>> /\ rest[1] \in Wildcard /\ g[n].wild = <<>>
      /\ Continue("insert", g, n, rest)
  BY DEF WalkNewWildcard, Here
<1> HIDE DEF g, rest
<1>3. Static(g[n])
  BY <1>1, <1>2, TokenAssumption DEF StandsAt
<1>4. Tree(g, t, rest[1], routes, n)
  <2>1. Tree(g, t, "/", routes, n) /\ ~Blank(g[n]) /\ n \in DOMAIN g
    BY <1>1 DEF StandsAt, Tree
  <2> QED
    BY <2>1, TreeElse
<1>5. InsertsAt(g, t, T, routes, p, n, rest)
  BY <1>1, <1>2, <1>3, <1>4 DEF StandsAt, InsertsAt
<1> QED
  BY <1>2, <1>5, ContinueInsert

\* The slash after a parameter.
LEMMA WalkAfterParamStep ==
  ASSUME Inv, WalkAfterParam
  PROVE  Inv'
<1> DEFINE g == Edge
           p == call.pattern
           n == call.n
           rest == Rest
           x == g[n].children[1]
           k == Count(g, x)
<1>1. PICK t, T : StandsAt(g, t, T, routes, p, n, rest)
  BY EdgeStand DEF WalkAfterParam
<1>2. /\ rest # <<>> /\ g[n].type = "param" /\ rest[1] = "/" /\ Len(g[n].children) = 1
      /\ Continue("walk", k, x, rest)
  BY DEF WalkAfterParam, AfterParam, Here
<1>3. k = Count(g, x)
  OBVIOUS
<1> HIDE DEF g, k, rest
<1>4. /\ n \in DOMAIN g /\ NodeOK(g, t, "/", n)
      /\ \A y \in Kids(g[n]) : /\ y \in DOMAIN g /\ Idx(g, "/", y) = IndexOf(g[y])
                               /\ \A z \in DOMAIN g : y \in Kids(g[z]) => z = n
      /\ \A i \in 1 .. Len(g[n].children) : g[n].children[i] \in Kids(g[n]) /\ Static(g[g[n].children[i]])
  BY <1>1, StandFacts
<1>5. 1 \in 1 .. Len(g[n].children)
  BY <1>2
<1>6. x \in Kids(g[n]) /\ x \in DOMAIN g /\ Static(g[x])
  BY <1>4, <1>5
<1>7. rest[1] = IndexOf(g[x])
  <2>1. Idx(g, "/", x) = "/"
    BY <1>2, <1>4, <1>5 DEF NodeOK, ParamOK
  <2> QED
    BY <1>2, <1>4, <1>6, <2>1
<1>8. ~Ordered(g, x)
  <2> SUFFICES ASSUME NEW z \in DOMAIN g, Static(g[z]), NEW i \in 1 .. Len(g[z].children),
                      g[z].children[i] = x
               PROVE  FALSE
    BY DEF Ordered
  <2>1. x \in Kids(g[z])
    BY DEF Kids
  <2>2. z = n
    BY <1>4, <1>6, <2>1
  <2> QED
    BY <1>2, <2>2 DEF Static
<1>9. Tree(g, t, "/", routes, n) /\ Ways(g, t, T, routes, p, n, n)
  BY <1>1 DEF StandsAt
<1> HIDE DEF x, n, p
<1>10. Counted(g, t, T, "/", routes, p, n, n, x, Count(g, x))
  BY <1>6, <1>8, <1>9, CountTree
<1>11. Counted(g, t, T, "/", routes, p, n, n, x, k)
  BY <1>3, <1>10
<1>12. WalksAt(k, t, T, routes, p, x, rest)
  BY <1>1, <1>2, <1>6, <1>7, <1>11, WalkTo
<1> QED
  BY <1>2, <1>12, ContinueWalk DEF p

\* The walk goes down to the child that begins with the path's character.
LEMMA WalkStaticStep ==
  ASSUME Inv, WalkStatic
  PROVE  Inv'
<1> DEFINE g == Edge
           p == call.pattern
           n == call.n
           rest == Rest
           m == g[n]
           pos == Index(m.indices, rest[1])
           x == m.children[pos]
           k == IncrementChildPrio(g, n, pos)
<1>1. PICK t, T : StandsAt(g, t, T, routes, p, n, rest)
  BY EdgeStand DEF WalkStatic
<1>2. /\ rest # <<>> /\ ~(m.type = "param" /\ rest[1] = "/" /\ Len(m.children) = 1)
      /\ Contains(m.indices, rest[1]) /\ Continue("walk", k, x, rest)
  BY DEF WalkStatic, AfterParam, Here
<1>3. k = IncrementChildPrio(g, n, pos) /\ x = m.children[pos] /\ m = g[n]
  OBVIOUS
<1>4. /\ n \in DOMAIN g /\ NodeOK(g, t, "/", n) /\ m \in NodeType(DOMAIN g)
      /\ \A y \in Kids(m) : Idx(g, "/", y) = IndexOf(g[y])
      /\ \A i \in 1 .. Len(m.children) : m.children[i] \in Kids(m) /\ Static(g[m.children[i]])
  BY <1>1, StandFacts
<1>5. m.indices \in Seq(Char) /\ m.children \in Seq(DOMAIN g)
  BY <1>4 DEF NodeType
<1>6. pos \in 1 .. Len(m.indices) /\ m.indices[pos] = rest[1]
  <2> DEFINE s == m.indices
             d == rest[1]
  <2>1. s \in Seq(Char) /\ \E i \in 1 .. Len(s) : s[i] = d
    BY <1>2, <1>5 DEF Contains
  <2> HIDE DEF s, d
  <2>2. Index(s, d) \in 0 .. Len(s) /\ Index(s, d) > 0 /\ s[Index(s, d)] = d
    BY <2>1, IndexFacts
  <2>3. Index(s, d) \in 1 .. Len(s)
    BY <2>1, <2>2, LenProperties
  <2> QED
    BY <2>2, <2>3 DEF s, d
<1> HIDE DEF k, rest, pos, x, m, g
<1>7. Static(m)
  <2> SUFFICES ASSUME m.type = "param" PROVE FALSE
    BY <1>1, <1>3 DEF StandsAt
  <2>1. rest[1] = "/"
    BY <1>1, <1>2, <1>3 DEF StandsAt, Static
  <2>2. Len(m.children) <= 1 /\ (m.children = <<>> => m.indices = <<>>)
    BY <1>3, <1>4 DEF NodeOK, ParamOK
  <2>3. Len(m.children) # 0
    <3>1. Len(m.indices) # 0
      BY <1>5, <1>6, LenProperties
    <3> QED
      BY <1>5, <2>2, <3>1, EmptySeq
  <2>4. Len(m.children) \in Nat
    BY <1>5, LenProperties
  <2>5. Len(m.children) = 1
    <3>1. Len(m.children) <= 1
      BY <2>2
    <3> DEFINE l == Len(m.children)
    <3>2. l \in Nat /\ l # 0 /\ l <= 1
      BY <2>3, <2>4, <3>1
    <3> HIDE DEF l
    <3>3. l = 1
      BY <3>2
    <3> QED
      BY <3>3 DEF l
  <2> QED
    BY <1>2, <2>1, <2>5
<1>8. /\ Len(m.indices) = Len(m.children)
      /\ \A i \in 1 .. Len(m.children) : m.indices[i] = Idx(g, "/", m.children[i])
  BY <1>3, <1>4, <1>7 DEF NodeOK, IndicesOK
<1>9. pos \in 1 .. Len(m.children)
  BY <1>6, <1>8
<1>10. x \in Kids(m) /\ Static(g[x]) /\ rest[1] = IndexOf(g[x])
  BY <1>3, <1>4, <1>6, <1>8, <1>9
<1>11. Tree(g, t, "/", routes, n) /\ Ways(g, t, T, routes, p, n, n)
  BY <1>1 DEF StandsAt
<1> HIDE DEF n, p
<1>12. Counted(g, t, T, "/", routes, p, n, n, x, IncrementChildPrio(g, n, pos))
  <2>1. /\ Static(g[n]) /\ Len(g[n].indices) = Len(g[n].children)
        /\ pos \in 1 .. Len(g[n].children) /\ x = g[n].children[pos]
    BY <1>3, <1>7, <1>8, <1>9
  <2> QED
    BY <1>4, <1>11, <2>1, IncrementTree
<1>13. Counted(g, t, T, "/", routes, p, n, n, x, k)
  BY <1>3, <1>12
<1>14. WalksAt(k, t, T, routes, p, x, rest)
  <2>1. x \in Kids(g[n])
    BY <1>3, <1>10
  <2> QED
    BY <1>1, <1>2, <1>10, <1>13, <2>1, WalkTo
<1> QED
  BY <1>2, <1>14, ContinueWalk DEF p

\* A new child takes the rest of the path.
LEMMA WalkNewStaticStep ==
  ASSUME Inv, WalkNewStatic
  PROVE  Inv'
<1> DEFINE g == Edge
           p == call.pattern
           n == call.n
           rest == Rest
           m == g[n]
           x == New(g, <<Above(Len(rest)), rest[1]>>)
           w == [m EXCEPT !.indices = Append(@, rest[1]), !.children = Append(@, x)]
           h == Put(Put(g, x, Node("static", <<>>, 0)), n, w)
           k == IncrementChildPrio(h, n, Len(m.indices) + 1)
<1>1. PICK t, T : StandsAt(g, t, T, routes, p, n, rest)
  BY EdgeStand DEF WalkNewStatic
<1>2. /\ rest # <<>> /\ rest[1] \notin Wildcard
      /\ ~(m.type = "param" /\ rest[1] = "/" /\ Len(m.children) = 1)
      /\ ~Contains(m.indices, rest[1])
      /\ IF m.wild # <<>> /\ g[m.wild[1]].type = "catchAll" THEN Panic(g)
         ELSE Continue("insert", k, x, rest)
  BY DEF WalkNewStatic, AfterParam, Here
<1>3. /\ k = IncrementChildPrio(h, n, Len(g[n].indices) + 1) /\ m = g[n]
      /\ w = [g[n] EXCEPT !.indices = Append(@, rest[1]), !.children = Append(@, x)]
  OBVIOUS
<1>4. x \notin DOMAIN g
  BY NewFresh
<1>5. n \in DOMAIN g
  BY <1>1, StandFacts
<1>6. BothWritten(h, g, x, Node("static", <<>>, 0), n, w)
  <2> HIDE DEF x, n, w, g
  <2> QED
    BY <1>4, <1>5, PutBoth
<1> HIDE DEF k, rest, w, x, m, g, h
<1>7. CASE m.wild # <<>> /\ g[m.wild[1]].type = "catchAll"
  BY <1>2, <1>7, PanicHolds
<1>8. CASE ~(m.wild # <<>> /\ g[m.wild[1]].type = "catchAll")
  <2>1. Continue("insert", k, x, rest)
    BY <1>2, <1>8
  <2> HIDE DEF n, p
  <2>2. \E u, U : InsertsAt(IncrementChildPrio(h, n, Len(g[n].indices) + 1), u, U, routes, p, x, rest)
    <3>1. /\ rest # <<>> /\ rest[1] \notin Wildcard
          /\ ~(g[n].type = "param" /\ rest[1] = "/" /\ Len(g[n].children) = 1)
          /\ ~Contains(g[n].indices, rest[1])
          /\ ~(g[n].wild # <<>> /\ g[g[n].wild[1]].type = "catchAll")
      BY <1>2, <1>3, <1>8
    <3> QED
      BY <1>1, <1>3, <1>4, <1>6, <3>1, NewStatic
  <2>3. PICK u, U : InsertsAt(k, u, U, routes, p, x, rest)
    BY <1>3, <2>2
  <2> QED
    BY <2>1, <2>3, ContinueInsert DEF p
<1> QED
  BY <1>7, <1>8

\* What an insertion has.
LEMMA InsertFacts ==
  ASSUME Inv, Inserting
  PROVE  \E t, T : /\ InsertsAt(node, t, T, routes, call.pattern, call.n, call.path)
                   /\ call.pattern \in Pattern /\ call.n \in DOMAIN node /\ call.path \in Seq(Token)
BY DEF Inv, Inserting, InsertsAt, Tree

\* The path without a wildcard.
LEMMA InsertStaticStep ==
  ASSUME Inv, InsertStatic
  PROVE  Inv'
<1> DEFINE p == call.pattern
           n == call.n
           path == call.path
           m == [node[n] EXCEPT !.path = path, !.data = p]
           g == Put(node, n, m)
<1>1. PICK t, T : InsertsAt(node, t, T, routes, p, n, path) /\ p \in Pattern
  BY InsertFacts DEF InsertStatic
<1>2. FindWildcard(path) = 0 /\ Return(g)
  BY DEF InsertStatic, First
<1>3. Written(g, node, n, m) /\ m = [node[n] EXCEPT !.path = path, !.data = p]
  BY PutWritten
<1> HIDE DEF g, m, p, n, path
<1>4. RestsAt(g, t, T, routes \cup {p})
  BY <1>1, <1>2, <1>3, StaticInserted
<1> QED
  BY <1>1, <1>2, <1>4, ReturnRests DEF p

\* A ":name".
LEMMA InsertParamStep ==
  ASSUME Inv, InsertParam
  PROVE  Inv'
<1> DEFINE p == call.pattern
           n == call.n
           path == call.path
           i == FindWildcard(path)
           above == Above(Len(path) - i + 1)
           x == New(node, <<above, path[i]>>)
           wc == Node("param", <<path[i]>>, 1)
           m == [node[n] EXCEPT !.wild = <<x>>,
                                !.path = IF i > 1 THEN SubSeq(path, 1, i - 1) ELSE @]
           h == Put(node, n, m)
           y == New(Put(h, x, wc), <<Append(above, path[i]), "/">>)
           v == [wc EXCEPT !.data = p]
           v2 == [wc EXCEPT !.children = <<y>>]
           w == Node("static", <<>>, 1)
           g == Put(h, x, v)
           g2 == Put(Put(h, x, v2), y, w)
<1>1. PICK t, T : /\ InsertsAt(node, t, T, routes, p, n, path) /\ p \in Pattern
                  /\ n \in DOMAIN node /\ path \in Seq(Token)
  BY InsertFacts DEF InsertParam
<1>2. /\ i > 0 /\ path[i] \in Param /\ Valid(path, i)
      /\ IF i = Len(path) THEN Return(g) ELSE Continue("insert", g2, y, From(path, i))
  BY DEF InsertParam, Refused, First, Name
<1>3. /\ m = [node[n] EXCEPT !.wild = <<x>>, !.path = IF i > 1 THEN SubSeq(path, 1, i - 1) ELSE @]
      /\ v = [Node("param", <<path[i]>>, 1) EXCEPT !.data = p]
      /\ v2 = [Node("param", <<path[i]>>, 1) EXCEPT !.children = <<y>>]
      /\ w = Node("static", <<>>, 1) /\ i = FindWildcard(path)
  OBVIOUS
<1>4. x \notin DOMAIN node
  BY NewFresh
<1>5. y \notin DOMAIN Put(h, x, wc)
  BY NewFresh
<1>6. DOMAIN Put(h, x, wc) = DOMAIN node \cup {n} \cup {x}
  <2>1. DOMAIN h = DOMAIN node \cup {n}
    <3> HIDE DEF m, n
    <3> QED
      BY PutFacts
  <2> HIDE DEF x, wc, n, m, h
  <2>2. DOMAIN Put(h, x, wc) = DOMAIN h \cup {x}
    BY PutFacts
  <2> QED
    BY <2>1, <2>2
<1>7. y \notin DOMAIN node /\ y # x
  <2> HIDE DEF x, y, wc, n, h
  <2> QED
    BY <1>5, <1>6
<1>8. BothWritten(g, node, n, m, x, v)
  <2> HIDE DEF x, n, m, v
  <2> QED
    BY <1>1, <1>4, PutBoth
<1>9. AllWritten(g2, node, n, m, x, v2, y, w)
  <2> HIDE DEF x, n, m, v2, y, w
  <2> QED
    BY <1>1, <1>4, <1>7, PutAll
<1> HIDE DEF g, g2, w, v2, v, y, h, m, wc, x, above, i, path, n, p
<1>10. CASE i = Len(path)
  <2>1. Return(g)
    BY <1>2, <1>10
  <2>2. PICK u, U : RestsAt(g, u, U, routes \cup {p})
    BY <1>1, <1>2, <1>3, <1>4, <1>8, <1>10, ParamInserted
  <2> QED
    BY <1>1, <2>1, <2>2, ReturnRests DEF p
<1>11. CASE i # Len(path)
  <2>1. Continue("insert", g2, y, From(path, i))
    BY <1>2, <1>11
  <2>2. PICK u, U : InsertsAt(g2, u, U, routes, p, y, From(path, i))
    BY <1>1, <1>2, <1>3, <1>4, <1>7, <1>9, <1>11, ParamContinued
  <2> QED
    BY <2>1, <2>2, ContinueInsert DEF p
<1> QED
  BY <1>10, <1>11

\* A "*name".
LEMMA InsertCatchAllStep ==
  ASSUME Inv, InsertCatchAll
  PROVE  Inv'
<1> DEFINE p == call.pattern
           n == call.n
           path == call.path
           i == FindWildcard(path)
           above == Above(2)
           x == New(node, <<above, "catchAll">>)
           k == Node("catchAll", <<>>, 1)
           y == New(Put(node, x, k), <<above, path[i]>>)
           m == [node[n] EXCEPT !.wild = <<x>>, !.path = SubSeq(path, 1, i - 2)]
           v == [k EXCEPT !.children = <<y>>]
           w == [Node("catchAll", From(path, i - 2), 1) EXCEPT !.data = p]
           g == Put(Put(Put(node, n, m), x, v), y, w)
<1>1. PICK t, T : /\ InsertsAt(node, t, T, routes, p, n, path) /\ p \in Pattern
                  /\ n \in DOMAIN node /\ path \in Seq(Token)
  BY InsertFacts DEF InsertCatchAll
<1>2. /\ i > 0 /\ path[i] \in CatchAll /\ ~(i < Len(path)) /\ i > 1 /\ path[i - 1] = "/"
      /\ Return(g)
  BY DEF InsertCatchAll, Refused, First, Name
<1>3. /\ m = [node[n] EXCEPT !.wild = <<x>>, !.path = SubSeq(path, 1, i - 2)]
      /\ v = [Node("catchAll", <<>>, 1) EXCEPT !.children = <<y>>]
      /\ w = [Node("catchAll", From(path, i - 2), 1) EXCEPT !.data = p]
      /\ i = FindWildcard(path)
  OBVIOUS
<1>4. x \notin DOMAIN node
  BY NewFresh
<1>5. y \notin DOMAIN Put(node, x, k)
  BY NewFresh
<1>6. DOMAIN Put(node, x, k) = DOMAIN node \cup {x}
  <2> HIDE DEF x, k
  <2> QED
    BY PutFacts
<1>7. y \notin DOMAIN node /\ y # x
  <2> HIDE DEF x, y, k
  <2> QED
    BY <1>5, <1>6
<1>8. AllWritten(g, node, n, m, x, v, y, w)
  <2> HIDE DEF x, n, m, v, y, w
  <2> QED
    BY <1>1, <1>4, <1>7, PutAll
<1> HIDE DEF g, w, v, m, y, k, x, above, i, path, n, p
<1>9. i = Len(path)
  <2>1. FindWildcard(path) \in 0 .. Len(path) /\ Len(path) \in Nat
    BY <1>1, WildcardFacts, LenProperties
  <2> QED
    BY <1>2, <1>3, <2>1
<1>10. PICK u, U : RestsAt(g, u, U, routes \cup {p})
  BY <1>1, <1>2, <1>3, <1>4, <1>7, <1>8, <1>9, CatchAllInserted
<1> QED
  BY <1>1, <1>2, <1>10, ReturnRests DEF p

\* Every step of registration keeps the invariant.
LEMMA NextInv == Inv /\ [Next]_vars => Inv'
<1> SUFFICES ASSUME Inv, [Next]_vars PROVE Inv'
  OBVIOUS
<1>1. ASSUME NEW p \in Pattern, AddRoute(p) PROVE Inv'
  BY <1>1, AddRouteStep
<1>2. CASE WalkEnd
  BY <1>2, WalkEndStep
<1>3. CASE WalkWildcard
  BY <1>3, WalkWildcardStep
<1>4. CASE WalkNewWildcard
  BY <1>4, WalkNewWildcardStep
<1>5. CASE WalkAfterParam
  BY <1>5, WalkAfterParamStep
<1>6. CASE WalkStatic
  BY <1>6, WalkStaticStep
<1>7. CASE WalkNewStatic
  BY <1>7, WalkNewStaticStep
<1>8. CASE InsertStatic
  BY <1>8, InsertStaticStep
<1>9. CASE InsertRefused
  BY <1>9, PanicHolds DEF InsertRefused
<1>10. CASE InsertParam
  BY <1>10, InsertParamStep
<1>11. CASE InsertCatchAll
  BY <1>11, InsertCatchAllStep
<1>12. CASE UNCHANGED vars
  BY <1>12 DEF Inv, vars
<1> QED
  BY <1>1, <1>2, <1>3, <1>4, <1>5, <1>6, <1>7, <1>8, <1>9, <1>10, <1>11, <1>12
     DEF Next, Walk, InsertChild

\* The invariant says of a tree at rest what the type invariant says.
LEMMA InvTypeOK == Inv => TypeOK
<1> SUFFICES ASSUME Inv PROVE TypeOK
  OBVIOUS
<1>1. routes \subseteq Pattern /\ call.loop \in {"idle", "walk", "insert", "panic"}
  BY DEF Inv
<1>2. ASSUME call.loop = "idle", NEW x \in DOMAIN node
      PROVE  LET n == node[x] IN
             /\ n.type \in {"static", "root", "param", "catchAll"}
             /\ n.data \in routes \cup {NoData}
             /\ \A i \in 1 .. Len(n.children) : n.children[i] \in DOMAIN node
             /\ n.type \in {"static", "root"} =>
                  /\ n.indices = [i \in 1 .. Len(n.children) |-> IndexOf(node[n.children[i]])]
                  /\ IsInjective(n.indices)
                  /\ \A i \in 2 .. Len(n.children) :
                       node[n.children[i - 1]].priority >= node[n.children[i]].priority
  <2> DEFINE n == node[x]
  <2>1. PICK t, T : RestsAt(node, t, T, routes)
    BY <1>2 DEF Inv
  <2>2. /\ Tree(node, t, "/", routes, Root) /\ NodeOK(node, t, "/", x) /\ DataOK(node, t, routes, x)
        /\ \A y \in DOMAIN node : Blank(node[y]) => y = Root
    BY <2>1 DEF RestsAt, Tree
  <2>3. n \in NodeType(DOMAIN node)
    BY <2>2 DEF NodeOK
  <2>4. n.type \in {"static", "root", "param", "catchAll"}
    BY <2>3 DEF NodeType
  <2>5. n.data \in routes \cup {NoData}
    BY <2>2 DEF DataOK
  <2>6. n.children \in Seq(DOMAIN node) /\ n.indices \in Seq(Char)
    BY <2>3 DEF NodeType
  <2>7. \A i \in 1 .. Len(n.children) : n.children[i] \in DOMAIN node
    BY <2>6, ElementOfSeq
  <2>8. ASSUME NEW i \in 1 .. Len(n.children)
        PROVE  Idx(node, "/", n.children[i]) = IndexOf(node[n.children[i]])
    <3> DEFINE y == n.children[i]
    <3>1. y \in Kids(n)
      BY DEF Kids
    <3> HIDE DEF y
    <3>2. y \in DOMAIN node /\ y # Root
      BY <2>2, <3>1, KidFacts
    <3>3. ~Blank(node[y])
      BY <2>2, <3>2
    <3> QED
      BY <3>3 DEF Idx, y
  <2>9. ASSUME n.type \in {"static", "root"}
        PROVE  /\ n.indices = [i \in 1 .. Len(n.children) |-> IndexOf(node[n.children[i]])]
               /\ IsInjective(n.indices)
               /\ \A i \in 2 .. Len(n.children) :
                    node[n.children[i - 1]].priority >= node[n.children[i]].priority
    <3>1. /\ Len(n.indices) = Len(n.children)
          /\ \A i \in 1 .. Len(n.children) : n.indices[i] = Idx(node, "/", n.children[i])
          /\ \A i, j \in 1 .. Len(n.children) : n.indices[i] = n.indices[j] => i = j
          /\ \A i, j \in 1 .. Len(n.children) :
               i <= j => node[n.children[i]].priority >= node[n.children[j]].priority
      BY <2>2, <2>9 DEF NodeOK, IndicesOK, Static
    <3>2. n.indices \in [1 .. Len(n.children) -> Char] /\ Len(n.children) \in Nat
      BY <2>6, <3>1, LenProperties
    <3>3. \A i \in 1 .. Len(n.children) : n.indices[i] = IndexOf(node[n.children[i]])
      BY <2>8, <3>1
    <3>4. n.indices = [i \in 1 .. Len(n.children) |-> IndexOf(node[n.children[i]])]
      <4> DEFINE s == n.indices
                 l == Len(n.children)
                 F(i) == IndexOf(node[n.children[i]])
      <4>1. s \in [1 .. l -> Char] /\ \A i \in 1 .. l : s[i] = F(i)
        BY <3>2, <3>3
      <4> HIDE DEF s, l, F
      <4>2. s = [i \in 1 .. l |-> F(i)]
        BY <4>1
      <4> QED
        BY <4>2 DEF s, l, F
    <3>5. IsInjective(n.indices)
      <4> DEFINE s == n.indices
      <4>1. DOMAIN s = 1 .. Len(n.children)
        BY <3>2
      <4>2. \A a, b \in DOMAIN s : s[a] = s[b] => a = b
        BY <3>1, <4>1
      <4> QED
        BY <4>2 DEF IsInjective
    <3>6. ASSUME NEW i \in 2 .. Len(n.children)
          PROVE  node[n.children[i - 1]].priority >= node[n.children[i]].priority
      <4>1. i - 1 \in 1 .. Len(n.children) /\ i \in 1 .. Len(n.children) /\ i - 1 <= i
        BY <3>2
      <4> QED
        BY <3>1, <4>1
    <3> QED
      BY <3>4, <3>5, <3>6
  <2> QED
    BY <2>4, <2>5, <2>7, <2>9
<1> QED
  BY <1>1, <1>2 DEF TypeOK

\* However the routes are registered, between two registrations each index of a static node
\* leads to its own child, in the order of their priorities, and a handler is a route's
\* (addRoute, insertChild and incrementChildPrio in tree.go).
THEOREM TypeCorrect == Spec => []TypeOK
<1>1. Init => Inv
  BY InitRests
<1>2. Inv /\ [Next]_vars => Inv'
  BY NextInv
<1>3. Inv => TypeOK
  BY InvTypeOK
<1> QED
  BY <1>1, <1>2, <1>3, PTL DEF Spec

-----------------------------------------------------------------------------
(* Lookup                                                                  *)

\* What a turn of a lookup comes to, given the one before it.
LookStep(path, i, r) == IF i = 0 THEN Looking(Root, path, <<>>) ELSE LookTurn(r)

\* Look is what its recursive definition says.
LEMMA LookUnfolds ==
  ASSUME NEW path
  PROVE  /\ Look(path)[0] = Looking(Root, path, <<>>)
         /\ \A i \in Nat : Look(path)[i + 1] = LookTurn(Look(path)[i])
<1> DEFINE F(i, r) == LookStep(path, i, r)
           Solves(g, n) == g = [i \in 0 .. n |-> F(i, g[i - 1])]
           Good == {n \in Nat : \E g : Solves(g, n)}
<1>1. \A x, y : F(0, x) = F(0, y)
  BY DEF LookStep
<1>2. Look(path) = CHOOSE f : f = [i \in Nat |-> F(i, f[i - 1])]
  BY DEF Look, LookStep
<1> HIDE DEF F
<1>3. Nat \subseteq Good
  <2>1. 0 \in Good
    <3> DEFINE g == [i \in 0 .. 0 |-> F(0, 0)]
    <3>1. \A i \in 0 .. 0 : F(i, g[i - 1]) = F(0, 0)
      BY <1>1
    <3>2. Solves(g, 0)
      BY <3>1
    <3> QED
      BY <3>2
  <2>2. ASSUME NEW n \in Nat, n \in Good PROVE n + 1 \in Good
    <3>1. PICK g : Solves(g, n)
      BY <2>2
    <3> DEFINE h == [i \in 0 .. n + 1 |-> IF i = n + 1 THEN F(n + 1, g[n]) ELSE g[i]]
    <3>2. \A i \in 0 .. n : h[i] = g[i] /\ g[i] = F(i, g[i - 1])
      BY <3>1
    <3>3. ASSUME NEW i \in 0 .. n + 1 PROVE h[i] = F(i, h[i - 1])
      <4>1. CASE i = 0
        <5>1. 0 \in 0 .. n
          OBVIOUS
        <5>2. h[0] = F(0, g[0 - 1])
          BY <3>2, <5>1
        <5> HIDE DEF h
        <5>3. h[0] = F(0, h[0 - 1])
          BY <1>1, <5>2
        <5> QED
          BY <4>1, <5>3
      <4>2. CASE i \in 1 .. n
        <5>1. i - 1 \in 0 .. n /\ i \in 0 .. n
          BY <4>2
        <5> QED
          BY <3>2, <5>1
      <4>3. CASE i = n + 1
        <5>1. h[n] = g[n] /\ (n + 1) - 1 = n /\ h[n + 1] = F(n + 1, g[n])
          BY <3>2
        <5> QED
          BY <4>3, <5>1
      <4> QED
        BY <4>1, <4>2, <4>3
    <3>4. Solves(h, n + 1)
      BY <3>3
    <3> HIDE DEF h, Solves
    <3> QED
      BY <3>4
  <2> HIDE DEF Good
  <2> QED
    BY <2>1, <2>2, SetInduction
<1>4. ASSUME NEW g, NEW h, NEW n \in Nat, NEW k \in Nat, Solves(g, n), Solves(h, k), n <= k
      PROVE  g[n] = h[n]
  <2> DEFINE Agree == {i \in Nat : i <= n => g[i] = h[i]}
  <2>1. 0 \in Agree
    <3>1. 0 \in 0 .. n /\ 0 \in 0 .. k
      OBVIOUS
    <3>2. g[0] = F(0, g[0 - 1]) /\ h[0] = F(0, h[0 - 1])
      BY <1>4, <3>1
    <3> QED
      BY <1>1, <3>2
  <2>2. ASSUME NEW i \in Nat, i \in Agree PROVE i + 1 \in Agree
    <3> SUFFICES ASSUME i + 1 <= n PROVE g[i + 1] = h[i + 1]
      OBVIOUS
    <3>1. i + 1 \in 0 .. n /\ i + 1 \in 0 .. k /\ (i + 1) - 1 = i
      BY <1>4
    <3>2. g[i + 1] = F(i + 1, g[i]) /\ h[i + 1] = F(i + 1, h[i])
      BY <1>4, <3>1
    <3> QED
      BY <2>2, <3>1, <3>2
  <2> HIDE DEF Agree
  <2>3. n \in Agree
    BY <2>1, <2>2, SetInduction
  <2> QED
    BY <2>3 DEF Agree
<1> DEFINE Sol(n) == CHOOSE g : Solves(g, n)
           f == [i \in Nat |-> Sol(i)[i]]
<1>5. \A n \in Nat : Solves(Sol(n), n)
  BY <1>3
<1>6. ASSUME NEW n \in Nat PROVE Sol(n)[n] = F(n, f[n - 1])
  <2> HIDE DEF Sol
  <2>1. Sol(n)[n] = F(n, Sol(n)[n - 1])
    <3>1. Sol(n) = [i \in 0 .. n |-> F(i, Sol(n)[i - 1])]
      BY <1>5
    <3>2. n \in 0 .. n
      OBVIOUS
    <3> QED
      BY <3>1, <3>2, Zenon
  <2>2. CASE n = 0
    BY <1>1, <2>1, <2>2
  <2>3. CASE n # 0
    <3>1. n - 1 \in Nat /\ n - 1 <= n
      BY <2>3
    <3> HIDE DEF Solves
    <3>2. Sol(n - 1)[n - 1] = Sol(n)[n - 1]
      BY <1>4, <1>5, <3>1
    <3>3. f[n - 1] = Sol(n - 1)[n - 1]
      BY <3>1
    <3> QED
      BY <2>1, <3>2, <3>3
  <2> QED
    BY <2>2, <2>3
<1>7. f = [i \in Nat |-> F(i, f[i - 1])]
  <2> HIDE DEF Sol
  <2> QED
    BY <1>6, Zenon
<1> HIDE DEF f
<1>8. Look(path) = [i \in Nat |-> F(i, Look(path)[i - 1])]
  BY <1>2, <1>7
<1>9. \A i \in Nat : Look(path)[i] = F(i, Look(path)[i - 1])
  BY <1>8
<1>10. \A i \in Nat : Look(path)[i + 1] = F(i + 1, Look(path)[i])
  <2> TAKE i \in Nat
  <2>1. i + 1 \in Nat /\ (i + 1) - 1 = i
    OBVIOUS
  <2> QED
    BY <1>9, <2>1
<1>11. 0 \in Nat /\ \A i \in Nat : i + 1 # 0
  OBVIOUS
<1>12. Look(path)[0] = F(0, Look(path)[0 - 1])
  BY <1>9, <1>11
<1> QED
  BY <1>10, <1>11, <1>12 DEF F, LookStep

\* What reading one more token comes to.
ReadStep(p, path, i, r) ==
  IF i = 0 THEN [ok |-> TRUE, at |-> 0, params |-> <<>>] ELSE Read(p[i], path, r)

\* Reading is what its recursive definition says.
LEMMA ReadUnfolds ==
  ASSUME NEW p, NEW path
  PROVE  /\ Reading(p, path)[0] = [ok |-> TRUE, at |-> 0, params |-> <<>>]
         /\ \A i \in Nat : Reading(p, path)[i + 1] = Read(p[i + 1], path, Reading(p, path)[i])
<1> DEFINE F(i, r) == ReadStep(p, path, i, r)
           Solves(g, n) == g = [i \in 0 .. n |-> F(i, g[i - 1])]
           Good == {n \in Nat : \E g : Solves(g, n)}
<1>1. \A x, y : F(0, x) = F(0, y)
  BY DEF ReadStep
<1>2. Reading(p, path) = CHOOSE f : f = [i \in Nat |-> F(i, f[i - 1])]
  BY DEF Reading, ReadStep
<1> HIDE DEF F
<1>3. Nat \subseteq Good
  <2>1. 0 \in Good
    <3> DEFINE g == [i \in 0 .. 0 |-> F(0, 0)]
    <3>1. \A i \in 0 .. 0 : F(i, g[i - 1]) = F(0, 0)
      BY <1>1
    <3>2. Solves(g, 0)
      BY <3>1
    <3> QED
      BY <3>2
  <2>2. ASSUME NEW n \in Nat, n \in Good PROVE n + 1 \in Good
    <3>1. PICK g : Solves(g, n)
      BY <2>2
    <3> DEFINE h == [i \in 0 .. n + 1 |-> IF i = n + 1 THEN F(n + 1, g[n]) ELSE g[i]]
    <3>2. \A i \in 0 .. n : h[i] = g[i] /\ g[i] = F(i, g[i - 1])
      BY <3>1
    <3>3. ASSUME NEW i \in 0 .. n + 1 PROVE h[i] = F(i, h[i - 1])
      <4>1. CASE i = 0
        <5>1. 0 \in 0 .. n
          OBVIOUS
        <5>2. h[0] = F(0, g[0 - 1])
          BY <3>2, <5>1
        <5> HIDE DEF h
        <5>3. h[0] = F(0, h[0 - 1])
          BY <1>1, <5>2
        <5> QED
          BY <4>1, <5>3
      <4>2. CASE i \in 1 .. n
        <5>1. i - 1 \in 0 .. n /\ i \in 0 .. n
          BY <4>2
        <5> QED
          BY <3>2, <5>1
      <4>3. CASE i = n + 1
        <5>1. h[n] = g[n] /\ (n + 1) - 1 = n /\ h[n + 1] = F(n + 1, g[n])
          BY <3>2
        <5> QED
          BY <4>3, <5>1
      <4> QED
        BY <4>1, <4>2, <4>3
    <3>4. Solves(h, n + 1)
      BY <3>3
    <3> HIDE DEF h, Solves
    <3> QED
      BY <3>4
  <2> HIDE DEF Good
  <2> QED
    BY <2>1, <2>2, SetInduction
<1>4. ASSUME NEW g, NEW h, NEW n \in Nat, NEW k \in Nat, Solves(g, n), Solves(h, k), n <= k
      PROVE  g[n] = h[n]
  <2> DEFINE Agree == {i \in Nat : i <= n => g[i] = h[i]}
  <2>1. 0 \in Agree
    <3>1. 0 \in 0 .. n /\ 0 \in 0 .. k
      OBVIOUS
    <3>2. g[0] = F(0, g[0 - 1]) /\ h[0] = F(0, h[0 - 1])
      BY <1>4, <3>1
    <3> QED
      BY <1>1, <3>2
  <2>2. ASSUME NEW i \in Nat, i \in Agree PROVE i + 1 \in Agree
    <3> SUFFICES ASSUME i + 1 <= n PROVE g[i + 1] = h[i + 1]
      OBVIOUS
    <3>1. i + 1 \in 0 .. n /\ i + 1 \in 0 .. k /\ (i + 1) - 1 = i
      BY <1>4
    <3>2. g[i + 1] = F(i + 1, g[i]) /\ h[i + 1] = F(i + 1, h[i])
      BY <1>4, <3>1
    <3> QED
      BY <2>2, <3>1, <3>2
  <2> HIDE DEF Agree
  <2>3. n \in Agree
    BY <2>1, <2>2, SetInduction
  <2> QED
    BY <2>3 DEF Agree
<1> DEFINE Sol(n) == CHOOSE g : Solves(g, n)
           f == [i \in Nat |-> Sol(i)[i]]
<1>5. \A n \in Nat : Solves(Sol(n), n)
  BY <1>3
<1>6. ASSUME NEW n \in Nat PROVE Sol(n)[n] = F(n, f[n - 1])
  <2> HIDE DEF Sol
  <2>1. Sol(n)[n] = F(n, Sol(n)[n - 1])
    <3>1. Sol(n) = [i \in 0 .. n |-> F(i, Sol(n)[i - 1])]
      BY <1>5
    <3>2. n \in 0 .. n
      OBVIOUS
    <3> QED
      BY <3>1, <3>2, Zenon
  <2>2. CASE n = 0
    BY <1>1, <2>1, <2>2
  <2>3. CASE n # 0
    <3>1. n - 1 \in Nat /\ n - 1 <= n
      BY <2>3
    <3> HIDE DEF Solves
    <3>2. Sol(n - 1)[n - 1] = Sol(n)[n - 1]
      BY <1>4, <1>5, <3>1
    <3>3. f[n - 1] = Sol(n - 1)[n - 1]
      BY <3>1
    <3> QED
      BY <2>1, <3>2, <3>3
  <2> QED
    BY <2>2, <2>3
<1>7. f = [i \in Nat |-> F(i, f[i - 1])]
  <2> HIDE DEF Sol
  <2> QED
    BY <1>6, Zenon
<1> HIDE DEF f
<1>8. Reading(p, path) = [i \in Nat |-> F(i, Reading(p, path)[i - 1])]
  BY <1>2, <1>7
<1>9. \A i \in Nat : Reading(p, path)[i] = F(i, Reading(p, path)[i - 1])
  BY <1>8
<1>10. \A i \in Nat : Reading(p, path)[i + 1] = F(i + 1, Reading(p, path)[i])
  <2> TAKE i \in Nat
  <2>1. i + 1 \in Nat /\ (i + 1) - 1 = i
    OBVIOUS
  <2> QED
    BY <1>9, <2>1
<1>11. 0 \in Nat /\ \A i \in Nat : i + 1 # 0
  OBVIOUS
<1>12. Reading(p, path)[0] = F(0, Reading(p, path)[0 - 1])
  BY <1>9, <1>11
<1> QED
  BY <1>10, <1>11, <1>12 DEF F, ReadStep

\* The rest of a sequence after any number of elements.
LEMMA FromFacts ==
  ASSUME NEW S, NEW q \in Seq(S), NEW k \in Nat
  PROVE  /\ From(q, k) \in Seq(S) /\ Len(From(q, k)) = IF k <= Len(q) THEN Len(q) - k ELSE 0
         /\ \A i \in 1 .. Len(q) - k : From(q, k)[i] = q[k + i]
         /\ From(q, k) # <<>> <=> k < Len(q)
<1>1. Len(q) \in Nat /\ \A i \in 1 .. Len(q) : q[i] \in S
  BY LenProperties, ElementOfSeq
<1>2. \A i \in k + 1 .. Len(q) : q[i] \in S
  BY <1>1
<1>3. /\ From(q, k) \in Seq(S)
      /\ Len(From(q, k)) = IF k + 1 <= Len(q) THEN Len(q) - (k + 1) + 1 ELSE 0
      /\ \A i \in 1 .. Len(q) - (k + 1) + 1 : From(q, k)[i] = q[(k + 1) + i - 1]
  BY <1>1, <1>2, SubSeqProperties DEF From
<1>4. Len(From(q, k)) = IF k <= Len(q) THEN Len(q) - k ELSE 0
  BY <1>1, <1>3
<1>5. \A i \in 1 .. Len(q) - k : From(q, k)[i] = q[k + i]
  BY <1>1, <1>3
<1>6. From(q, k) # <<>> <=> Len(From(q, k)) # 0
  BY <1>3, EmptySeq
<1>7. From(q, k) # <<>> <=> k < Len(q)
  BY <1>1, <1>4, <1>6
<1> QED
  BY <1>3, <1>4, <1>5, <1>7

\* The rest of the rest.
LEMMA FromFrom ==
  ASSUME NEW S, NEW q \in Seq(S), NEW k \in Nat, NEW j \in Nat, k + j <= Len(q)
  PROVE  From(From(q, k), j) = From(q, k + j)
<1> DEFINE r == From(q, k)
           a == From(r, j)
           b == From(q, k + j)
<1>1. Len(q) \in Nat /\ k <= Len(q) /\ k + j \in Nat
  BY LenProperties
<1>2. /\ r \in Seq(S) /\ Len(r) = Len(q) - k
      /\ \A i \in 1 .. Len(q) - k : r[i] = q[k + i]
  BY <1>1, FromFacts
<1>3. j <= Len(r)
  BY <1>1, <1>2
<1> HIDE DEF r
<1>4. /\ a \in Seq(S) /\ Len(a) = Len(r) - j
      /\ \A i \in 1 .. Len(r) - j : a[i] = r[j + i]
  BY <1>2, <1>3, FromFacts
<1>5. /\ b \in Seq(S) /\ Len(b) = Len(q) - (k + j)
      /\ \A i \in 1 .. Len(q) - (k + j) : b[i] = q[(k + j) + i]
  BY <1>1, FromFacts
<1>6. Len(a) = Len(b)
  <2>1. Len(r) = Len(q) - k
    BY <1>2
  <2>2. Len(a) = Len(r) - j
    BY <1>4
  <2>3. Len(b) = Len(q) - (k + j)
    BY <1>5
  <2> QED
    BY <1>1, <2>1, <2>2, <2>3
<1>7. ASSUME NEW i \in 1 .. Len(a) PROVE a[i] = b[i]
  <2>1. /\ i \in 1 .. Len(r) - j /\ j + i \in 1 .. Len(q) - k
        /\ i \in 1 .. Len(q) - (k + j) /\ k + (j + i) = (k + j) + i
    BY <1>1, <1>2, <1>4
  <2>2. a[i] = r[j + i] /\ r[j + i] = q[k + (j + i)] /\ b[i] = q[(k + j) + i]
    BY <1>2, <1>4, <1>5, <2>1
  <2> QED
    BY <2>1, <2>2
<1> HIDE DEF a, b
<1>8. a = b
  BY <1>4, <1>5, <1>6, <1>7, SeqEqual
<1> QED
  BY <1>8 DEF a, b, r

\* The first segment.
LEMMA SegmentFacts ==
  ASSUME NEW S, NEW q \in Seq(S)
  PROVE  SegmentLength(q) \in 0 .. Len(q)
<1>1. Index(q, "/") \in 0 .. Len(q) /\ Len(q) \in Nat
  BY IndexFacts, LenProperties
<1> QED
  BY <1>1 DEF SegmentLength

\* How far a reading may have come.
Fine(r, q) == r.ok \in BOOLEAN /\ r.at \in Nat /\ (r.ok => r.at <= Len(q))

\* What one character does to a reading.
LEMMA ReadChar ==
  ASSUME NEW q \in Seq(Char), NEW r, Fine(r, q), NEW c \in Char
  PROVE  /\ Read(c, q, r).ok <=> (r.ok /\ r.at + 1 <= Len(q) /\ q[r.at + 1] = c)
         /\ Read(c, q, r).ok \in BOOLEAN
         /\ Read(c, q, r).at = r.at + 1 /\ Read(c, q, r).params = r.params
<1> DEFINE rest == From(q, r.at)
<1>1. r.at \in Nat /\ Len(q) \in Nat /\ r.ok \in BOOLEAN
  BY LenProperties DEF Fine
<1>2. rest # <<>> <=> r.at < Len(q)
  BY <1>1, FromFacts
<1>3. r.at < Len(q) => rest[1] = q[r.at + 1]
  <2> SUFFICES ASSUME r.at < Len(q) PROVE rest[1] = q[r.at + 1]
    OBVIOUS
  <2>1. 1 \in 1 .. Len(q) - r.at
    BY <1>1
  <2>2. \A i \in 1 .. Len(q) - r.at : rest[i] = q[r.at + i]
    BY <1>1, FromFacts
  <2> QED
    BY <2>1, <2>2
<1>4. c \notin Param /\ c \notin CatchAll
  BY TokenAssumption DEF Wildcard
<1>5. Read(c, q, r) = [ok |-> r.ok /\ rest # <<>> /\ rest[1] = c, at |-> r.at + 1, params |-> r.params]
  BY <1>4 DEF Read
<1> HIDE DEF rest
<1>6. Read(c, q, r).ok <=> (r.ok /\ rest # <<>> /\ rest[1] = c)
  <2> DEFINE v == r.ok /\ rest # <<>> /\ rest[1] = c
  <2>1. v \in BOOLEAN /\ Read(c, q, r) = [ok |-> v, at |-> r.at + 1, params |-> r.params]
    BY <1>5
  <2> HIDE DEF v
  <2>2. Read(c, q, r).ok = v
    BY <2>1
  <2>3. Read(c, q, r).ok <=> v
    BY <2>2
  <2> QED
    BY <2>3 DEF v
<1>7. Read(c, q, r).ok \in BOOLEAN /\ Read(c, q, r).at = r.at + 1 /\ Read(c, q, r).params = r.params
  BY <1>5
<1>8. r.at < Len(q) <=> r.at + 1 <= Len(q)
  BY <1>1
<1> QED
  BY <1>2, <1>3, <1>6, <1>7, <1>8

\* What a ":name" does to it.
LEMMA ReadParam ==
  ASSUME NEW q \in Seq(Char), NEW r, Fine(r, q), NEW c \in Param
  PROVE  LET rest == From(q, r.at)
             end == SegmentLength(rest)
         IN  /\ Read(c, q, r).ok <=> (r.ok /\ rest # <<>>)
             /\ Read(c, q, r).ok \in BOOLEAN
             /\ Read(c, q, r).at = r.at + end
             /\ Read(c, q, r).params = Append(r.params, Capture(c, SubSeq(rest, 1, end)))
<1> DEFINE rest == From(q, r.at)
           end == SegmentLength(rest)
           more == Append(r.params, Capture(c, SubSeq(rest, 1, end)))
<1>1. Read(c, q, r) = [ok |-> r.ok /\ rest # <<>>, at |-> r.at + end, params |-> more]
  BY DEF Read
<1>2. r.ok \in BOOLEAN
  BY DEF Fine
<1> HIDE DEF rest, end, more
<1>3. Read(c, q, r).ok <=> (r.ok /\ rest # <<>>)
  <2> DEFINE v == r.ok /\ rest # <<>>
  <2>1. v \in BOOLEAN /\ Read(c, q, r) = [ok |-> v, at |-> r.at + end, params |-> more]
    BY <1>1
  <2> HIDE DEF v
  <2>2. Read(c, q, r).ok = v
    BY <2>1
  <2>3. Read(c, q, r).ok <=> v
    BY <2>2
  <2> QED
    BY <2>3 DEF v
<1>4. Read(c, q, r).ok \in BOOLEAN /\ Read(c, q, r).at = r.at + end /\ Read(c, q, r).params = more
  BY <1>1, <1>2
<1> QED
  BY <1>3, <1>4 DEF rest, end, more

\* And a "*name".
LEMMA ReadCatchAll ==
  ASSUME NEW q, NEW r, NEW c \in CatchAll
  PROVE  /\ Read(c, q, r).ok = r.ok /\ Read(c, q, r).at = Len(q)
         /\ Read(c, q, r).params = Append(r.params, Capture(c, From(q, r.at)))
<1>1. c \notin Param
  BY TokenAssumption
<1> QED
  BY <1>1 DEF Read

\* A reading stays within the path, and fails for good.
LEMMA ReadFine ==
  ASSUME NEW q \in Seq(Char), NEW r, Fine(r, q), NEW c \in Token
  PROVE  Fine(Read(c, q, r), q) /\ (Read(c, q, r).ok => r.ok)
<1>1. Len(q) \in Nat /\ r.at \in Nat
  BY LenProperties DEF Fine
<1>2. CASE c \in Char
  BY <1>1, <1>2, ReadChar DEF Fine
<1>3. CASE c \in Param
  <2> DEFINE rest == From(q, r.at)
             end == SegmentLength(rest)
  <2>1. /\ rest \in Seq(Char) /\ Len(rest) = IF r.at <= Len(q) THEN Len(q) - r.at ELSE 0
    BY <1>1, FromFacts
  <2>2. end \in 0 .. Len(rest)
    BY <2>1, SegmentFacts
  <2>3. /\ Read(c, q, r).ok => r.ok
        /\ Read(c, q, r).ok \in BOOLEAN /\ Read(c, q, r).at = r.at + end
    BY <1>3, ReadParam
  <2> HIDE DEF rest, end
  <2>4. end \in Nat /\ (r.at <= Len(q) => r.at + end <= Len(q))
    BY <1>1, <2>1, <2>2
  <2> QED
    BY <1>1, <2>3, <2>4 DEF Fine
<1>4. CASE c \in CatchAll
  BY <1>1, <1>4, ReadCatchAll DEF Fine
<1> QED
  BY <1>2, <1>3, <1>4 DEF Token, Wildcard

\* So does the reading of a pattern.
LEMMA ReadingFine ==
  ASSUME NEW q \in Seq(Char), NEW p \in Seq(Token)
  PROVE  \A i \in 0 .. Len(p) : /\ Fine(Reading(p, q)[i], q)
                                /\ i < Len(p) /\ Reading(p, q)[i + 1].ok => Reading(p, q)[i].ok
<1> DEFINE R == Reading(p, q)
           S == {i \in Nat : i <= Len(p) => Fine(R[i], q)}
<1>1. Len(p) \in Nat /\ Len(q) \in Nat
  BY LenProperties
<1>2. R[0] = [ok |-> TRUE, at |-> 0, params |-> <<>>] /\ \A i \in Nat : R[i + 1] = Read(p[i + 1], q, R[i])
  BY ReadUnfolds
<1> HIDE DEF R
<1>3. 0 \in S
  <2>1. R[0].ok \in BOOLEAN
    <3> DEFINE v == R[0].ok
    <3>1. v = TRUE
      BY <1>2
    <3> HIDE DEF v
    <3>2. v \in BOOLEAN
      BY <3>1
    <3> QED
      BY <3>2 DEF v
  <2>2. R[0].at = 0
    BY <1>2
  <2>3. Fine(R[0], q)
    BY <1>1, <2>1, <2>2 DEF Fine
  <2> QED
    BY <2>3
<1>4. ASSUME NEW i \in Nat, i \in S PROVE i + 1 \in S
  <2> SUFFICES ASSUME i + 1 <= Len(p) PROVE Fine(R[i + 1], q)
    OBVIOUS
  <2>1. i <= Len(p) /\ i + 1 \in 1 .. Len(p)
    BY <1>1
  <2>2. Fine(R[i], q) /\ p[i + 1] \in Token
    BY <1>4, <2>1, ElementOfSeq
  <2>3. Fine(Read(p[i + 1], q, R[i]), q)
    BY <2>2, ReadFine
  <2> QED
    BY <1>2, <2>3
<1> HIDE DEF S
<1>5. Nat \subseteq S
  BY <1>3, <1>4, SetInduction
<1>6. ASSUME NEW i \in 0 .. Len(p)
      PROVE  Fine(R[i], q) /\ (i < Len(p) /\ R[i + 1].ok => R[i].ok)
  <2>1. Fine(R[i], q)
    BY <1>1, <1>5 DEF S
  <2>2. ASSUME i < Len(p), R[i + 1].ok PROVE R[i].ok
    <3>1. i \in Nat /\ i + 1 \in 1 .. Len(p)
      BY <1>1, <2>2
    <3>2. p[i + 1] \in Token
      BY <3>1, ElementOfSeq
    <3>3. Read(p[i + 1], q, R[i]).ok => R[i].ok
      BY <2>1, <3>2, ReadFine
    <3> QED
      BY <1>2, <2>2, <3>1, <3>3
  <2> QED
    BY <2>1, <2>2
<1> QED
  BY <1>6 DEF R

\* A pattern that can be read to its end can be read up to each token.
LEMMA ReadingOk ==
  ASSUME NEW q \in Seq(Char), NEW p \in Seq(Token), Reading(p, q)[Len(p)].ok, NEW k \in 0 .. Len(p)
  PROVE  Reading(p, q)[k].ok
<1> DEFINE R == Reading(p, q)
           S == {i \in Nat : i <= Len(p) => R[Len(p) - i].ok}
<1>1. Len(p) \in Nat
  BY LenProperties
<1>2. \A i \in 0 .. Len(p) : i < Len(p) /\ R[i + 1].ok => R[i].ok
  BY ReadingFine
<1>3. R[Len(p)].ok
  OBVIOUS
<1> HIDE DEF R
<1>4. 0 \in S
  BY <1>1, <1>3
<1>5. ASSUME NEW i \in Nat, i \in S PROVE i + 1 \in S
  <2> SUFFICES ASSUME i + 1 <= Len(p) PROVE R[Len(p) - (i + 1)].ok
    OBVIOUS
  <2> DEFINE j == Len(p) - (i + 1)
  <2>1. j \in 0 .. Len(p) /\ j < Len(p) /\ j + 1 = Len(p) - i /\ i <= Len(p)
    BY <1>1
  <2> HIDE DEF j
  <2>2. R[j + 1].ok
    BY <1>5, <2>1
  <2>3. R[j].ok
    BY <1>2, <2>1, <2>2
  <2> QED
    BY <2>3 DEF j
<1> HIDE DEF S
<1>6. Nat \subseteq S
  BY <1>4, <1>5, SetInduction
<1>7. Len(p) - k \in Nat /\ Len(p) - k <= Len(p) /\ Len(p) - (Len(p) - k) = k
  BY <1>1
<1>8. Len(p) - k \in S
  BY <1>6, <1>7
<1>9. R[Len(p) - (Len(p) - k)].ok
  BY <1>7, <1>8 DEF S
<1> QED
  BY <1>7, <1>9 DEF R

\* A reading depends on the tokens read.
LEMMA ReadingAgrees ==
  ASSUME NEW q, NEW p, NEW r, NEW k \in Nat, \A i \in 1 .. k : p[i] = r[i]
  PROVE  Reading(p, q)[k] = Reading(r, q)[k]
<1> DEFINE P == Reading(p, q)
           R == Reading(r, q)
           S == {i \in Nat : i <= k => P[i] = R[i]}
<1>1. P[0] = R[0]
  BY ReadUnfolds
<1>2. \A i \in Nat : P[i + 1] = Read(p[i + 1], q, P[i])
  BY ReadUnfolds
<1>3. \A i \in Nat : R[i + 1] = Read(r[i + 1], q, R[i])
  BY ReadUnfolds
<1> HIDE DEF P, R
<1>4. 0 \in S
  BY <1>1
<1>5. ASSUME NEW i \in Nat, i \in S PROVE i + 1 \in S
  <2> SUFFICES ASSUME i + 1 <= k PROVE P[i + 1] = R[i + 1]
    OBVIOUS
  <2>1. i + 1 \in 1 .. k /\ i <= k
    OBVIOUS
  <2>2. P[i] = R[i] /\ p[i + 1] = r[i + 1]
    BY <1>5, <2>1
  <2> QED
    BY <1>2, <1>3, <2>2
<1> HIDE DEF S
<1>6. k \in S
  BY <1>4, <1>5, SetInduction
<1> QED
  BY <1>6 DEF S, P, R

\* The reading z of k more tokens, all characters, comes from r.
CharsRead(r, z, p, q, i, k) ==
  /\ z.ok <=> (r.ok /\ \A j \in 1 .. k : r.at + j <= Len(q) /\ q[r.at + j] = p[i + j])
  /\ z.at = r.at + k /\ z.params = r.params

\* Characters are read one by one.
LEMMA ReadingChars ==
  ASSUME NEW q \in Seq(Char), NEW p \in Seq(Token), NEW i \in 0 .. Len(p), NEW k \in 0 .. Len(p) - i,
         \A j \in 1 .. k : p[i + j] \in Char
  PROVE  CharsRead(Reading(p, q)[i], Reading(p, q)[i + k], p, q, i, k)
<1> DEFINE R == Reading(p, q)
           r == R[i]
           S == {m \in Nat : m <= k => CharsRead(r, R[i + m], p, q, i, m)}
<1>1. Len(p) \in Nat /\ Len(q) \in Nat /\ i \in Nat /\ k \in Nat
  BY LenProperties
<1>2. \A m \in Nat : R[m + 1] = Read(p[m + 1], q, R[m])
  BY ReadUnfolds
<1>3. \A m \in 0 .. Len(p) : Fine(R[m], q)
  BY ReadingFine
<1>4. Fine(r, q)
  BY <1>3
<1> HIDE DEF R
<1>5. r.at \in Nat
  BY <1>4 DEF Fine
<1>6. 0 \in S
  <2>1. i + 0 = i /\ r.at + 0 = r.at
    BY <1>1, <1>5
  <2>2. R[i + 0] = r
    BY <2>1
  <2>3. CharsRead(r, r, p, q, i, 0)
    BY <2>1 DEF CharsRead
  <2> QED
    BY <2>2, <2>3
<1>7. ASSUME NEW m \in Nat, m \in S PROVE m + 1 \in S
  <2> SUFFICES ASSUME m + 1 <= k PROVE CharsRead(r, R[i + (m + 1)], p, q, i, m + 1)
    OBVIOUS
  <2> DEFINE y == R[i + m]
             z == R[i + (m + 1)]
             c == p[i + (m + 1)]
  <2>1. /\ m <= k /\ m + 1 \in 1 .. k /\ i + m \in 0 .. Len(p) /\ i + m \in Nat
        /\ (i + m) + 1 = i + (m + 1)
    BY <1>1
  <2>2. CharsRead(r, y, p, q, i, m)
    BY <1>7, <2>1
  <2>3. Fine(y, q) /\ c \in Char
    BY <1>3, <2>1
  <2>4. z = Read(c, q, y)
    BY <1>2, <2>1
  <2> HIDE DEF y, z, c
  <2>5. /\ z.ok <=> (y.ok /\ y.at + 1 <= Len(q) /\ q[y.at + 1] = c)
        /\ z.at = y.at + 1 /\ z.params = y.params
    BY <2>3, <2>4, ReadChar
  <2>6. /\ y.ok <=> (r.ok /\ \A j \in 1 .. m : r.at + j <= Len(q) /\ q[r.at + j] = p[i + j])
        /\ y.at = r.at + m /\ y.params = r.params
    BY <2>2 DEF CharsRead
  <2>7. y.at + 1 = r.at + (m + 1)
    <3>1. y.at = r.at + m
      BY <2>6
    <3>2. r.at \in Nat
      BY <1>5
    <3>3. \A a \in Nat : (a + m) + 1 = a + (m + 1)
      OBVIOUS
    <3> QED
      BY <3>1, <3>2, <3>3
  <2>8. z.at = r.at + (m + 1) /\ z.params = r.params
    BY <2>5, <2>6, <2>7
  <2>9. z.ok <=> (r.ok /\ \A j \in 1 .. m + 1 : r.at + j <= Len(q) /\ q[r.at + j] = p[i + j])
    <3> DEFINE Q(j) == r.at + j <= Len(q) /\ q[r.at + j] = p[i + j]
    <3>1. z.ok <=> (r.ok /\ (\A j \in 1 .. m : Q(j)) /\ Q(m + 1))
      BY <2>5, <2>6, <2>7 DEF c
    <3>2. 1 .. m + 1 = (1 .. m) \cup {m + 1}
      OBVIOUS
    <3> HIDE DEF Q
    <3>3. z.ok <=> (r.ok /\ \A j \in 1 .. m + 1 : Q(j))
      BY <3>1, <3>2, Zenon
    <3> QED
      BY <3>3 DEF Q
  <2> QED
    BY <2>8, <2>9 DEF CharsRead, z
<1> HIDE DEF S
<1>8. k \in S
  BY <1>1, <1>6, <1>7, SetInduction
<1>9. k <= k
  BY <1>1
<1> QED
  BY <1>8, <1>9 DEF S, R

\* What reading a whole text comes to.
Reads(a, q) == Reading(a, q)[Len(a)]

\* A pattern that begins with a text is read as the text is.
LEMMA ReadsPrefix ==
  ASSUME NEW q, NEW a \in Seq(Token), NEW p \in Seq(Token), IsPrefix(a, p)
  PROVE  Reading(p, q)[Len(a)] = Reads(a, q) /\ Len(a) \in 0 .. Len(p)
<1>1. Len(a) \in Nat /\ Len(p) \in Nat /\ Len(a) <= Len(p) /\ \A i \in 1 .. Len(a) : a[i] = p[i]
  BY PrefixFacts, LenProperties
<1>2. Reading(p, q)[Len(a)] = Reading(a, q)[Len(a)]
  BY <1>1, ReadingAgrees
<1> QED
  BY <1>1, <1>2 DEF Reads

\* Where a reading comes to.
LEMMA ReadsFine ==
  ASSUME NEW q \in Seq(Char), NEW a \in Seq(Token)
  PROVE  Fine(Reads(a, q), q)
<1>1. Len(a) \in 0 .. Len(a)
  BY LenProperties
<1> QED
  BY <1>1, ReadingFine DEF Reads

\* What can be read can be read up to any point.
LEMMA ReadsOk ==
  ASSUME NEW q \in Seq(Char), NEW p \in Seq(Token), Reads(p, q).ok,
         NEW a \in Seq(Token), IsPrefix(a, p)
  PROVE  Reads(a, q).ok
<1>1. Reading(p, q)[Len(a)] = Reads(a, q) /\ Len(a) \in 0 .. Len(p)
  BY ReadsPrefix
<1>2. Reading(p, q)[Len(a)].ok
  BY <1>1, ReadingOk DEF Reads
<1> QED
  BY <1>1, <1>2

\* One token more.
LEMMA ReadsToken ==
  ASSUME NEW q, NEW a \in Seq(Token), NEW c \in Token
  PROVE  Reads(a \o <<c>>, q) = Read(c, q, Reads(a, q))
<1> DEFINE s == <<c>>
           b == a \o s
<1>1. s \in Seq(Token) /\ Len(s) = 1 /\ s[1] = c
  OBVIOUS
<1> HIDE DEF s
<1>2. /\ b \in Seq(Token) /\ Len(b) = Len(a) + Len(s) /\ IsPrefix(a, b)
      /\ \A i \in 1 .. Len(s) : b[Len(a) + i] = s[i]
  <2>1. s \in Seq(Token)
    BY <1>1
  <2> QED
    BY <2>1, ConcatFacts
<1>3. b[Len(a) + 1] = c /\ Len(b) = Len(a) + 1 /\ Len(a) \in Nat
  BY <1>1, <1>2, LenProperties
<1> HIDE DEF b
<1>4. Reading(b, q)[Len(a)] = Reads(a, q)
  BY <1>2, ReadsPrefix
<1>5. Reading(b, q)[Len(a) + 1] = Read(b[Len(a) + 1], q, Reading(b, q)[Len(a)])
  BY <1>3, ReadUnfolds
<1>6. Reads(b, q) = Read(c, q, Reads(a, q))
  BY <1>3, <1>4, <1>5 DEF Reads
<1> QED
  BY <1>6 DEF b, s

\* The reading z goes on from r with the path b of a node, where path is left.
PathRead(r, z, q, b, path) ==
  /\ Len(path) = Len(q) - r.at /\ path \in Seq(Char)
  /\ z.ok <=> (Len(path) >= Len(b) /\ IsPrefix(b, path))
  /\ z.at = r.at + Len(b) /\ z.params = r.params
  /\ z.ok => From(path, Len(b)) = From(q, z.at)
  /\ path = b <=> (z.ok /\ z.at = Len(q))
  /\ z.ok => (Len(path) > Len(b) <=> From(q, z.at) # <<>>)

\* A node's path is read character by character.
LEMMA ReadsPath ==
  ASSUME NEW q \in Seq(Char), NEW a \in Seq(Token), NEW b \in Seq(Char), Reads(a, q).ok
  PROVE  PathRead(Reads(a, q), Reads(a \o b, q), q, b, From(q, Reads(a, q).at))
<1> DEFINE r == Reads(a, q)
           e == a \o b
           z == Reads(e, q)
           path == From(q, r.at)
<1>1. b \in Seq(Token)
  BY SeqMonotonic DEF Token
<1>2. /\ e \in Seq(Token) /\ Len(e) = Len(a) + Len(b) /\ IsPrefix(a, e)
      /\ \A i \in 1 .. Len(b) : e[Len(a) + i] = b[i]
  BY <1>1, ConcatFacts
<1>3. Len(a) \in Nat /\ Len(b) \in Nat /\ Len(q) \in Nat
  BY LenProperties
<1>4. Fine(r, q) /\ r.ok
  BY ReadsFine
<1>5. r.at \in Nat /\ r.at <= Len(q)
  BY <1>4 DEF Fine
<1> HIDE DEF e
<1>6. CharsRead(r, z, e, q, Len(a), Len(b))
  <2>1. Len(a) \in 0 .. Len(e) /\ Len(b) \in 0 .. Len(e) - Len(a)
    BY <1>2, <1>3
  <2>2. \A i \in 1 .. Len(b) : e[Len(a) + i] \in Char
    BY <1>2, ElementOfSeq
  <2>3. CharsRead(Reading(e, q)[Len(a)], Reading(e, q)[Len(a) + Len(b)], e, q, Len(a), Len(b))
    BY <1>2, <2>1, <2>2, ReadingChars
  <2>4. Reading(e, q)[Len(a)] = r
    BY <1>2, ReadsPrefix
  <2>5. Reading(e, q)[Len(a) + Len(b)] = z
    BY <1>2 DEF Reads
  <2> QED
    BY <2>3, <2>4, <2>5
<1> HIDE DEF r, z
<1>7. /\ path \in Seq(Char) /\ Len(path) = Len(q) - r.at
      /\ \A i \in 1 .. Len(q) - r.at : path[i] = q[r.at + i]
  BY <1>5, FromFacts
<1> HIDE DEF path
<1>8. z.at = r.at + Len(b) /\ z.params = r.params
  BY <1>6 DEF CharsRead
<1>9. z.ok <=> (\A j \in 1 .. Len(b) : r.at + j <= Len(q) /\ q[r.at + j] = b[j])
  BY <1>2, <1>4, <1>6 DEF CharsRead
<1>10. IsPrefix(b, path) <=> (Len(b) <= Len(path) /\ \A i \in 1 .. Len(b) : b[i] = path[i])
  BY <1>7, PrefixFacts
<1>11. z.ok <=> (Len(path) >= Len(b) /\ IsPrefix(b, path))
  <2>1. ASSUME z.ok PROVE Len(path) >= Len(b) /\ IsPrefix(b, path)
    <3>1. Len(b) <= Len(path)
      <4>1. CASE Len(b) = 0
        BY <1>3, <1>5, <1>7, <4>1
      <4>2. CASE Len(b) # 0
        <5>1. Len(b) \in 1 .. Len(b)
          BY <1>3, <4>2
        <5>2. r.at + Len(b) <= Len(q)
          BY <1>9, <2>1, <5>1
        <5> QED
          BY <1>3, <1>5, <1>7, <5>2
      <4> QED
        BY <4>1, <4>2
    <3>2. ASSUME NEW i \in 1 .. Len(b) PROVE b[i] = path[i]
      <4>1. i \in 1 .. Len(q) - r.at
        BY <1>3, <1>5, <1>7, <3>1
      <4>2. q[r.at + i] = b[i]
        BY <1>9, <2>1
      <4> QED
        BY <1>7, <4>1, <4>2
    <3> QED
      BY <1>3, <1>7, <1>10, <3>1, <3>2, LenProperties
  <2>2. ASSUME IsPrefix(b, path) PROVE z.ok
    <3>1. ASSUME NEW j \in 1 .. Len(b) PROVE r.at + j <= Len(q) /\ q[r.at + j] = b[j]
      <4>1. j \in 1 .. Len(q) - r.at /\ r.at + j <= Len(q)
        BY <1>3, <1>5, <1>7, <1>10, <2>2
      <4>2. b[j] = path[j]
        BY <1>10, <2>2
      <4> QED
        BY <1>7, <4>1, <4>2
    <3> QED
      BY <1>9, <3>1
  <2> QED
    BY <2>1, <2>2
<1>12. z.ok => Len(b) <= Len(path) /\ r.at + Len(b) <= Len(q)
  BY <1>3, <1>5, <1>7, <1>10, <1>11
<1>13. z.ok => From(path, Len(b)) = From(q, z.at)
  <2>1. z.ok => From(From(q, r.at), Len(b)) = From(q, r.at + Len(b))
    BY <1>3, <1>5, <1>12, FromFrom
  <2> QED
    BY <1>8, <2>1 DEF path
<1>14. path = b <=> (z.ok /\ z.at = Len(q))
  <2>1. ASSUME path = b PROVE z.ok /\ z.at = Len(q)
    <3>1. IsPrefix(b, path)
      BY <1>3, <1>7, <1>10, <2>1
    <3>2. z.ok
      BY <1>3, <1>10, <1>11, <2>1, <3>1
    <3>3. Len(b) = Len(q) - r.at
      BY <1>7, <2>1
    <3>4. z.at = Len(q)
      BY <1>3, <1>5, <1>8, <3>3
    <3> QED
      BY <3>2, <3>4
  <2>2. ASSUME z.ok, z.at = Len(q) PROVE path = b
    <3>1. Len(path) = Len(b)
      BY <1>3, <1>5, <1>7, <1>8, <2>2
    <3>2. \A i \in 1 .. Len(b) : b[i] = path[i]
      BY <1>10, <1>11, <2>2
    <3> QED
      BY <1>7, <3>1, <3>2, SeqEqual
  <2> QED
    BY <2>1, <2>2
<1>15. z.ok => (Len(path) > Len(b) <=> From(q, z.at) # <<>>)
  <2>1. From(q, z.at) # <<>> <=> z.at < Len(q)
    <3>1. z.at \in Nat
      BY <1>3, <1>5, <1>8
    <3> QED
      BY <3>1, FromFacts
  <2>2. Len(path) > Len(b) <=> z.at < Len(q)
    BY <1>3, <1>5, <1>7, <1>8
  <2> QED
    BY <2>1, <2>2
<1>16. PathRead(r, z, q, b, path)
  BY <1>7, <1>8, <1>11, <1>13, <1>14, <1>15 DEF PathRead
<1> QED
  BY <1>16 DEF r, z, path, e

\* The reading z goes on from r with a ":name", where rest is left.
SegmentRead(r, z, q, c, rest) ==
  LET end == SegmentLength(rest) IN
  /\ z.ok /\ z.at = r.at + end /\ z.params = Append(r.params, Capture(c, SubSeq(rest, 1, end)))
  /\ From(rest, end) = From(q, z.at) /\ end \in Nat
  /\ end < Len(rest) <=> From(q, z.at) # <<>>
  /\ end < Len(rest) \/ z.at = Len(q)
  /\ z.at = Len(q) => ~(end < Len(rest))

\* A ":name" is read as the rest of the segment.
LEMMA ReadsParam ==
  ASSUME NEW q \in Seq(Char), NEW a \in Seq(Token), Reads(a, q).ok, NEW c \in Param,
         From(q, Reads(a, q).at) # <<>>
  PROVE  SegmentRead(Reads(a, q), Reads(a \o <<c>>, q), q, c, From(q, Reads(a, q).at))
<1> DEFINE r == Reads(a, q)
           z == Reads(a \o <<c>>, q)
           rest == From(q, r.at)
           end == SegmentLength(rest)
<1>1. Fine(r, q) /\ r.ok
  BY ReadsFine
<1>2. r.at \in Nat /\ r.at <= Len(q) /\ Len(q) \in Nat
  BY <1>1, LenProperties DEF Fine
<1>3. z = Read(c, q, r)
  BY ReadsToken DEF Token, Wildcard
<1> HIDE DEF r, z
<1>4. rest \in Seq(Char) /\ Len(rest) = Len(q) - r.at
  BY <1>2, FromFacts
<1>5. /\ z.ok <=> (r.ok /\ rest # <<>>)
      /\ z.at = r.at + end /\ z.params = Append(r.params, Capture(c, SubSeq(rest, 1, end)))
  BY <1>1, <1>3, ReadParam
<1>6. rest # <<>>
  BY DEF r
<1>7. end \in 0 .. Len(rest)
  BY <1>4, SegmentFacts
<1>8. z.ok /\ z.at = r.at + end /\ z.params = Append(r.params, Capture(c, SubSeq(rest, 1, end)))
  BY <1>1, <1>5, <1>6
<1> HIDE DEF end
<1>9. From(rest, end) = From(q, z.at)
  <2>1. end \in Nat /\ r.at + end <= Len(q)
    BY <1>2, <1>4, <1>7
  <2>2. From(From(q, r.at), end) = From(q, r.at + end)
    BY <1>2, <2>1, FromFrom
  <2> QED
    BY <1>8, <2>2
<1>10. end < Len(rest) <=> From(q, z.at) # <<>>
  <2>1. From(q, z.at) # <<>> <=> z.at < Len(q)
    <3>1. z.at \in Nat
      BY <1>2, <1>7, <1>8
    <3> QED
      BY <3>1, FromFacts
  <2>2. end < Len(rest) <=> z.at < Len(q)
    <3> HIDE DEF rest
    <3> QED
      BY <1>2, <1>4, <1>7, <1>8
  <2> QED
    BY <2>1, <2>2
<1>11. /\ end < Len(rest) \/ z.at = Len(q)
       /\ z.at = Len(q) => ~(end < Len(rest))
  <2> HIDE DEF rest
  <2> QED
    BY <1>2, <1>4, <1>7, <1>8
<1>12. end \in Nat
  BY <1>7
<1>13. SegmentRead(r, z, q, c, rest)
  BY <1>8, <1>9, <1>10, <1>11, <1>12 DEF SegmentRead, end
<1> QED
  BY <1>13 DEF r, z, rest

\* A lookup that ends without a handler.
Missed(s) == \E b : s = Missing(b)

\* What a turn at node n makes of state s; z is the reading up to the end of n.
Turned(s, n, z, q) ==
  LET rest == From(q, z.at)
      wc == node[n.wild[1]]
      m == LookTurn(s)
  IN
  /\ ~z.ok => Missed(m)
  /\ z.ok /\ rest = <<>> =>
       z.at = Len(q) /\ IF n.data # NoData THEN m = Found(n.data, z.params) ELSE Missed(m)
  /\ z.ok /\ rest # <<>> =>
       IF Contains(n.indices, rest[1])
         THEN m = Looking(n.children[Index(n.indices, rest[1])], rest, z.params)
       ELSE IF n.wild = <<>> THEN Missed(m)
       ELSE IF wc.type = "param" THEN m = TakeSegment(wc, rest, z.params)
       ELSE m = TakeRest(node[wc.children[1]], rest, z.params)

\* A turn of getValue at a static node.
LEMMA TurnAt ==
  ASSUME NEW q \in Seq(Char), NEW a \in Seq(Token), Reads(a, q).ok, NEW x, node[x].path \in Seq(Char),
         NEW s, s = Looking(x, From(q, Reads(a, q).at), Reads(a, q).params)
  PROVE  Turned(s, node[x], Reads(a \o node[x].path, q), q)
<1> DEFINE r == Reads(a, q)
           n == node[x]
           z == Reads(a \o n.path, q)
           rest == From(q, z.at)
           wc == node[n.wild[1]]
           m == LookTurn(s)
<1>1. ~s.over /\ s.n = x /\ s.path = From(q, r.at) /\ s.params = r.params
  BY DEF Looking
<1>2. PathRead(r, z, q, n.path, s.path)
  BY <1>1, ReadsPath
<1>3. Fine(z, q)
  <2>1. n.path \in Seq(Token)
    BY SeqMonotonic DEF Token
  <2>2. a \o n.path \in Seq(Token)
    BY <2>1, TokenConcat
  <2> QED
    BY <2>2, ReadsFine
<1> HIDE DEF r, z
<1>4. /\ z.ok <=> (Len(s.path) >= Len(n.path) /\ IsPrefix(n.path, s.path))
      /\ z.params = s.params
      /\ z.ok => From(s.path, Len(n.path)) = rest
      /\ s.path = n.path <=> (z.ok /\ z.at = Len(q))
      /\ z.ok => (Len(s.path) > Len(n.path) <=> rest # <<>>)
  BY <1>1, <1>2 DEF PathRead
<1>5. Len(q) \in Nat /\ z.at \in Nat /\ (z.ok => z.at <= Len(q))
  BY <1>3, LenProperties DEF Fine
<1>6. rest # <<>> <=> z.at < Len(q)
  BY <1>5, FromFacts
<1>7. Len(s.path) \in Nat /\ Len(n.path) \in Nat
  <2>1. s.path \in Seq(Char)
    BY <1>2 DEF PathRead
  <2> QED
    BY <2>1, LenProperties
<1>8. ASSUME ~z.ok PROVE Missed(m)
  <2>1. ~(Len(s.path) > Len(n.path) /\ IsPrefix(n.path, s.path)) /\ s.path # n.path
    BY <1>4, <1>7, <1>8
  <2>2. m = Missing(\/ s.path = <<"/">>
                    \/ n.path = Append(s.path, "/") /\ n.data # NoData)
    BY <1>1, <2>1 DEF LookTurn
  <2> QED
    BY <2>2 DEF Missed
<1>9. ASSUME z.ok, rest = <<>>
      PROVE  z.at = Len(q) /\ IF n.data # NoData THEN m = Found(n.data, z.params) ELSE Missed(m)
  <2>1. z.at = Len(q)
    BY <1>5, <1>6, <1>9
  <2>2. ~(Len(s.path) > Len(n.path)) /\ s.path = n.path
    BY <1>4, <1>9, <2>1
  <2>3. m = AtNode(n, s.path, s.params)
    BY <1>1, <2>2 DEF LookTurn
  <2>4. IF n.data # NoData THEN m = Found(n.data, s.params) ELSE Missed(m)
    BY <2>3 DEF AtNode, Missed
  <2> QED
    BY <1>4, <2>1, <2>4
<1>10. ASSUME z.ok, rest # <<>>
       PROVE  IF Contains(n.indices, rest[1])
                THEN m = Looking(n.children[Index(n.indices, rest[1])], rest, z.params)
              ELSE IF n.wild = <<>> THEN Missed(m)
              ELSE IF wc.type = "param" THEN m = TakeSegment(wc, rest, z.params)
              ELSE m = TakeRest(node[wc.children[1]], rest, z.params)
  <2>1. Len(s.path) > Len(n.path) /\ IsPrefix(n.path, s.path) /\ From(s.path, Len(n.path)) = rest
    BY <1>4, <1>10
  <2> HIDE DEF rest
  <2>2. m = IF Contains(n.indices, rest[1])
              THEN Looking(n.children[Index(n.indices, rest[1])], rest, s.params)
            ELSE IF n.wild = <<>> THEN Missing(rest = <<"/">> /\ n.data # NoData)
            ELSE IF wc.type = "param" THEN TakeSegment(wc, rest, s.params)
            ELSE TakeRest(node[wc.children[1]], rest, s.params)
    BY <1>1, <2>1 DEF LookTurn
  <2> HIDE DEF m, n, wc
  <2> QED
    BY <1>4, <2>2 DEF Missed
<1>11. Turned(s, n, z, q)
  BY <1>8, <1>9, <1>10 DEF Turned
<1> QED
  BY <1>11 DEF z

\* A static node of a tree at rest, and its children.
StaticNode(t, x) ==
  LET n == node[x] IN
  /\ n \in NodeType(DOMAIN node) /\ n.path \in Seq(Char) /\ t[x] \in Seq(Token)
  /\ End(node, t, x) \in Seq(Token) /\ DataOK(node, t, routes, x)
  /\ Len(n.indices) = Len(n.children) /\ Len(n.children) \in Nat
  /\ \A i, j \in 1 .. Len(n.children) : n.indices[i] = n.indices[j] => i = j
  /\ n.children # <<>> => n.path # <<>>
  /\ \A i \in 1 .. Len(n.children) :
       LET y == n.children[i] IN
       /\ y \in DOMAIN node /\ t[y] = End(node, t, x) /\ Static(node[y]) /\ ~Blank(node[y])
       /\ n.indices[i] = IndexOf(node[y])

\* What the invariant says of a static node.
LEMMA StaticNodeFacts ==
  ASSUME NEW t, NEW T, RestsAt(node, t, T, routes), NEW x \in DOMAIN node, Static(node[x])
  PROVE  StaticNode(t, x)
<1> DEFINE n == node[x]
           E == End(node, t, x)
<1>1. /\ Tree(node, t, "/", routes, Root) /\ NodeOK(node, t, "/", x) /\ DataOK(node, t, routes, x)
      /\ t \in [DOMAIN node -> Seq(Token)]
      /\ \A y \in DOMAIN node : Blank(node[y]) => y = Root
  BY DEF RestsAt, Tree
<1>2. n \in NodeType(DOMAIN node) /\ n.path \in Seq(Char) /\ t[x] \in Seq(Token)
  BY <1>1 DEF NodeOK, StaticOK
<1>3. n.path \in Seq(Token) /\ n.children \in Seq(DOMAIN node)
  BY <1>2 DEF NodeType
<1>4. E \in Seq(Token)
  BY <1>2, <1>3, TokenConcat DEF End
<1>5. /\ Len(n.indices) = Len(n.children)
      /\ \A i \in 1 .. Len(n.children) : n.indices[i] = Idx(node, "/", n.children[i])
      /\ \A i, j \in 1 .. Len(n.children) : n.indices[i] = n.indices[j] => i = j
  BY <1>1 DEF NodeOK, IndicesOK
<1>6. n.children # <<>> => n.path # <<>>
  BY <1>1 DEF NodeOK, StaticOK
<1>7. ASSUME NEW i \in 1 .. Len(n.children)
      PROVE  LET y == n.children[i] IN
             /\ y \in DOMAIN node /\ t[y] = E /\ Static(node[y]) /\ ~Blank(node[y])
             /\ n.indices[i] = IndexOf(node[y])
  <2> DEFINE y == n.children[i]
  <2>1. t[y] = E /\ Static(node[y])
    BY <1>1 DEF NodeOK, ChildrenOK, Static
  <2>2. y \in Kids(n)
    BY DEF Kids
  <2>3. y \in DOMAIN node /\ y # Root
    <3> HIDE DEF y
    <3> QED
      BY <1>1, <2>2, KidFacts
  <2>4. ~Blank(node[y])
    BY <1>1, <2>3
  <2>5. n.indices[i] = IndexOf(node[y])
    BY <1>5, <2>4 DEF Idx
  <2> QED
    BY <2>1, <2>3, <2>4, <2>5
<1>8. Len(n.children) \in Nat
  BY <1>3, LenProperties
<1> HIDE DEF E
<1> QED
  BY <1>1, <1>2, <1>4, <1>5, <1>6, <1>7, <1>8 DEF StaticNode, E

\* The ":name" below a static node, and what goes on after it.
ParamBelow(t, x, w) ==
  LET n == node[x]
      wc == node[w]
  IN
  /\ n.path # <<>> /\ w \in DOMAIN node /\ w \in Kids(n) /\ t[w] = End(node, t, x)
  /\ wc.path = <<wc.path[1]>> /\ wc.path[1] \in Param /\ wc.wild = <<>>
  /\ End(node, t, w) = End(node, t, x) \o <<wc.path[1]>> /\ End(node, t, w) \in Seq(Token)
  /\ DataOK(node, t, routes, w)
  /\ Kids(wc) = IF wc.children = <<>> THEN {} ELSE {wc.children[1]}
  /\ wc.children # <<>> =>
       LET y == wc.children[1] IN
       /\ y \in DOMAIN node /\ t[y] = End(node, t, w) /\ Static(node[y]) /\ ~Blank(node[y])
       /\ IndexOf(node[y]) = "/"

\* The "*name" below it.
CatchAllBelow(t, x, w) ==
  LET n == node[x]
      wc == node[w]
      y == wc.children[1]
  IN
  /\ n.children = <<>> /\ w \in DOMAIN node /\ wc.path = <<>> /\ wc.data = NoData /\ Kids(wc) = {y}
  /\ t[w] = End(node, t, x)
  /\ y \in DOMAIN node /\ t[y] = End(node, t, x) /\ Kids(node[y]) = {}
  /\ node[y].data # NoData /\ DataOK(node, t, routes, y)
  /\ \E c \in CatchAll : node[y].path = <<"/", c>>

\* A node has the one or the other.
LEMMA WildBelow ==
  ASSUME NEW t, NEW T, RestsAt(node, t, T, routes), NEW x \in DOMAIN node, Static(node[x]),
         node[x].wild # <<>>, NEW w, w = node[x].wild[1]
  PROVE  /\ Kids(node[x]) = {node[x].children[i] : i \in 1 .. Len(node[x].children)} \cup {w}
         /\ IF node[w].type = "param" THEN ParamBelow(t, x, w) ELSE CatchAllBelow(t, x, w)
<1> DEFINE n == node[x]
           wc == node[w]
           E == End(node, t, x)
<1>1. /\ Tree(node, t, "/", routes, Root) /\ NodeOK(node, t, "/", x)
      /\ t \in [DOMAIN node -> Seq(Token)]
      /\ \A y \in DOMAIN node : /\ NodeOK(node, t, "/", y) /\ DataOK(node, t, routes, y)
                                /\ Blank(node[y]) => y = Root
  BY DEF RestsAt, Tree
<1>2. n.wild \in Seq(DOMAIN node) /\ n.children \in Seq(DOMAIN node)
  BY <1>1 DEF NodeOK, NodeType
<1>3. Len(n.wild) = 1
  <2>1. Len(n.wild) \in Nat /\ Len(n.wild) # 0
    BY <1>2, EmptySeq, LenProperties
  <2>2. Len(n.wild) <= 1
    BY <1>1 DEF NodeOK, WildOK
  <2> DEFINE l == Len(n.wild)
  <2>3. l \in Nat /\ l # 0 /\ l <= 1
    BY <2>1, <2>2
  <2> HIDE DEF l
  <2>4. l = 1
    BY <2>3
  <2> QED
    BY <2>4 DEF l
<1>4. {n.wild[i] : i \in 1 .. Len(n.wild)} = {w}
  BY <1>3
<1>5. Kids(n) = {n.children[i] : i \in 1 .. Len(n.children)} \cup {w}
  BY <1>4 DEF Kids
<1>6. w \in DOMAIN node /\ w \in Kids(n)
  <2>1. w \in Kids(n)
    BY <1>5
  <2> QED
    BY <1>1, <2>1, KidFacts
<1>7. /\ t[w] = E /\ wc.type \in {"param", "catchAll"}
      /\ wc.type = "catchAll" => n.children = <<>> /\ wc.path = <<>>
  BY <1>1, <1>3 DEF NodeOK, WildOK
<1>8. E \in Seq(Token)
  BY StaticNodeFacts DEF StaticNode
<1>9. NodeOK(node, t, "/", w) /\ DataOK(node, t, routes, w) /\ wc \in NodeType(DOMAIN node)
  BY <1>1, <1>6 DEF NodeOK
<1>10. wc.children \in Seq(DOMAIN node)
  BY <1>9 DEF NodeType
<1>11. Len(<<>>) = 0
  BY EmptySeq
<1>12. wc.wild = <<>>
  BY <1>7, <1>9 DEF NodeOK, ParamOK, CatchAllOK
<1>13. {wc.wild[i] : i \in 1 .. Len(wc.wild)} = {}
  BY <1>11, <1>12
<1>14. ASSUME Len(wc.children) = 1
       PROVE  /\ wc.children # <<>> /\ Kids(wc) = {wc.children[1]} /\ wc.children[1] \in DOMAIN node
              /\ t[wc.children[1]] = End(node, t, w) /\ ~Blank(node[wc.children[1]])
              /\ node[wc.children[1]].type = IF wc.type = "catchAll" THEN "catchAll" ELSE "static"
  <2> DEFINE y == wc.children[1]
  <2>1. {wc.children[i] : i \in 1 .. Len(wc.children)} = {y}
    BY <1>14
  <2>2. Kids(wc) = {y}
    BY <1>13, <2>1 DEF Kids
  <2>3. wc.children # <<>>
    BY <1>11, <1>14
  <2>4. t[y] = End(node, t, w) /\ node[y].type = IF wc.type = "catchAll" THEN "catchAll" ELSE "static"
    <3>1. ChildrenOK(node, t, w)
      BY <1>9 DEF NodeOK
    <3>2. 1 \in 1 .. Len(wc.children)
      BY <1>14
    <3> QED
      BY <3>1, <3>2 DEF ChildrenOK
  <2> HIDE DEF y
  <2>5. y \in Kids(wc)
    BY <2>2
  <2>6. y \in DOMAIN node /\ y # Root
    BY <1>1, <1>6, <2>5, KidFacts
  <2>7. ~Blank(node[y])
    BY <1>1, <2>6
  <2> QED
    BY <2>2, <2>3, <2>4, <2>6, <2>7 DEF y
<1>15. CASE wc.type = "param"
  <2>1. /\ Len(wc.path) = 1 /\ wc.path[1] \in Param /\ Len(wc.children) <= 1
        /\ \A i \in 1 .. Len(wc.children) : Idx(node, "/", wc.children[i]) = "/"
    BY <1>9, <1>15 DEF NodeOK, ParamOK
  <2>2. wc.path = <<wc.path[1]>>
    <3> DEFINE s == wc.path
               c == s[1]
               r == <<c>>
    <3>1. s \in Seq(Token) /\ Len(s) = 1
      BY <1>9, <2>1 DEF NodeType
    <3> HIDE DEF s
    <3>2. c \in Token
      BY <3>1, ElementOfSeq
    <3>3. r \in Seq(Token) /\ Len(r) = 1 /\ r[1] = c
      BY <3>2
    <3> HIDE DEF r
    <3>4. \A i \in 1 .. Len(s) : s[i] = r[i]
      BY <3>1, <3>3
    <3>5. s = r
      BY <3>1, <3>3, <3>4, SeqEqual
    <3> QED
      BY <3>5 DEF s, r
  <2>3. n.path # <<>>
    <3>1. n.path = <<>> => \A i \in 1 .. Len(n.wild) : node[n.wild[i]].type = "catchAll"
      BY <1>1 DEF NodeOK, StaticOK
    <3> QED
      BY <1>3, <1>15, <3>1
  <2>4. End(node, t, w) = E \o <<wc.path[1]>>
    BY <1>7, <2>2 DEF End
  <2>5. End(node, t, w) \in Seq(Token)
    <3>1. t[w] \in Seq(Token) /\ wc.path \in Seq(Token)
      BY <1>1, <1>6, <1>9 DEF NodeType
    <3> QED
      BY <3>1, TokenConcat DEF End
  <2>6. CASE wc.children = <<>>
    <3>1. Kids(wc) = {}
      <4>1. {wc.children[i] : i \in 1 .. Len(wc.children)} = {}
        BY <1>11, <2>6
      <4> QED
        BY <1>13, <4>1 DEF Kids
    <3>2. ParamBelow(t, x, w)
      BY <1>6, <1>7, <1>9, <1>12, <2>1, <2>2, <2>3, <2>4, <2>5, <2>6, <3>1 DEF ParamBelow
    <3> QED
      BY <1>5, <1>15, <3>2
  <2>7. CASE wc.children # <<>>
    <3>1. Len(wc.children) = 1
      <4>1. Len(wc.children) \in Nat /\ Len(wc.children) # 0
        BY <1>10, <2>7, EmptySeq, LenProperties
      <4>2. Len(wc.children) <= 1
        BY <2>1
      <4> DEFINE l == Len(wc.children)
      <4>3. l \in Nat /\ l # 0 /\ l <= 1
        BY <4>1, <4>2
      <4> HIDE DEF l
      <4>4. l = 1
        BY <4>3
      <4> QED
        BY <4>4 DEF l
    <3> DEFINE y == wc.children[1]
    <3>2. /\ Kids(wc) = {y} /\ y \in DOMAIN node
          /\ t[y] = End(node, t, w) /\ ~Blank(node[y]) /\ Static(node[y])
      BY <1>14, <1>15, <3>1 DEF Static
    <3>3. IndexOf(node[y]) = "/"
      <4>1. Idx(node, "/", y) = "/"
        BY <2>1, <3>1
      <4> QED
        BY <3>2, <4>1 DEF Idx
    <3>4. ParamBelow(t, x, w)
      BY <1>6, <1>7, <1>9, <1>12, <2>1, <2>2, <2>3, <2>4, <2>5, <2>7, <3>2, <3>3 DEF ParamBelow
    <3> QED
      BY <1>5, <1>15, <3>4
  <2> QED
    BY <2>6, <2>7
<1>16. CASE wc.type = "catchAll"
  <2> DEFINE y == wc.children[1]
  <2>1. n.children = <<>> /\ wc.path = <<>>
    BY <1>7, <1>16
  <2>2. Len(wc.children) = 1 /\ wc.data = NoData /\ node[y].path # <<>>
    <3>1. \A c : wc.path # <<"/", c>>
      <4> TAKE c
      <4> DEFINE s == <<"/", c>>
      <4>1. Len(s) = 2
        OBVIOUS
      <4> HIDE DEF s
      <4>2. wc.path # s
        BY <1>11, <2>1, <4>1
      <4> QED
        BY <4>2 DEF s
    <3> QED
      BY <1>9, <1>16, <3>1 DEF NodeOK, CatchAllOK
  <2>3. /\ Kids(wc) = {y} /\ y \in DOMAIN node /\ t[y] = End(node, t, w) /\ node[y].type = "catchAll"
    BY <1>14, <1>16, <2>2
  <2>4. End(node, t, w) = E
    BY <1>7, <1>8, <2>1, ConcatEmptySeq DEF End
  <2>5. NodeOK(node, t, "/", y) /\ DataOK(node, t, routes, y)
    BY <1>1, <2>3
  <2> HIDE DEF y
  <2>6. /\ node[y].wild = <<>> /\ node[y].children = <<>> /\ node[y].data # NoData
        /\ \E c \in CatchAll : node[y].path = <<"/", c>>
    BY <2>2, <2>3, <2>5 DEF NodeOK, CatchAllOK
  <2>7. Kids(node[y]) = {}
    BY <1>11, <2>6 DEF Kids
  <2>8. CatchAllBelow(t, x, w)
    BY <1>6, <1>7, <2>1, <2>2, <2>3, <2>4, <2>5, <2>6, <2>7 DEF CatchAllBelow, y
  <2> QED
    BY <1>5, <1>16, <2>8
<1> QED
  BY <1>7, <1>15, <1>16

\* A lookup comes to the static node x after at least k characters, and has read its text.
Reached(s, t, x, q, k) ==
  LET r == Reads(t[x], q) IN
  /\ x \in DOMAIN node /\ Static(node[x]) /\ r.ok /\ k <= r.at
  /\ s = Looking(x, From(q, r.at), r.params)

\* The turn there, and how far its path reaches.
LEMMA PathReached ==
  ASSUME NEW q \in Seq(Char), NEW t, NEW x, StaticNode(t, x), NEW k \in Nat,
         NEW s, Reached(s, t, x, q, k), NEW z, z = Reads(End(node, t, x), q)
  PROVE  /\ Turned(s, node[x], z, q) /\ Fine(z, q)
         /\ node[x].path # <<>> => k + 1 <= z.at
<1> DEFINE a == t[x]
           r == Reads(a, q)
           b == node[x].path
<1>1. a \in Seq(Token) /\ b \in Seq(Char) /\ End(node, t, x) \in Seq(Token) /\ z = Reads(a \o b, q)
  BY DEF StaticNode, End
<1>2. r.ok /\ k <= r.at /\ s = Looking(x, From(q, r.at), r.params)
  BY DEF Reached
<1>3. Turned(s, node[x], z, q)
  <2> HIDE DEF a
  <2> QED
    BY <1>1, <1>2, TurnAt
<1>4. Fine(z, q)
  BY <1>1, ReadsFine
<1>5. b # <<>> => k + 1 <= z.at
  <2>1. PathRead(r, z, q, b, From(q, r.at))
    <3> HIDE DEF a, b
    <3> QED
      BY <1>1, <1>2, ReadsPath
  <2>2. z.at = r.at + Len(b)
    BY <2>1 DEF PathRead
  <2>3. Fine(r, q)
    BY <1>1, ReadsFine
  <2>4. r.at \in Nat
    BY <2>3 DEF Fine
  <2>5. Len(b) \in Nat /\ (b # <<>> => Len(b) # 0)
    BY <1>1, EmptySeq, LenProperties
  <2> HIDE DEF b, r
  <2> QED
    BY <1>2, <2>2, <2>4, <2>5
<1> QED
  BY <1>3, <1>4, <1>5

\* A lookup that m stands for, after a ":name" has been read to v.
ParamTurned(m, t, w, q, k, v) ==
  LET wc == node[w] IN
  /\ v.ok /\ Fine(v, q)
  /\ IF From(q, v.at) # <<>>
     THEN IF wc.children # <<>> THEN Reached(m, t, wc.children[1], q, k + 1) ELSE Missed(m)
     ELSE /\ v.at = Len(q)
          /\ IF wc.data # NoData THEN m = Found(wc.data, v.params) ELSE Missed(m)

\* A ":name" takes the rest of the segment.
LEMMA TakesSegment ==
  ASSUME NEW q \in Seq(Char), NEW t, NEW x, NEW w, StaticNode(t, x), ParamBelow(t, x, w), NEW k \in Nat,
         NEW z, z = Reads(End(node, t, x), q), z.ok, k + 1 <= z.at, NEW rest, rest = From(q, z.at),
         rest # <<>>, NEW m, m = TakeSegment(node[w], rest, z.params)
  PROVE  ParamTurned(m, t, w, q, k, Reads(End(node, t, w), q))
<1> DEFINE E == End(node, t, x)
           wc == node[w]
           c == wc.path[1]
           F == End(node, t, w)
           v == Reads(F, q)
           end == SegmentLength(rest)
           more == Append(z.params, Capture(c, SubSeq(rest, 1, end)))
           y == wc.children[1]
<1>1. /\ E \in Seq(Token) /\ c \in Param /\ F = E \o <<c>> /\ F \in Seq(Token)
      /\ wc.children # <<>> =>
           y \in DOMAIN node /\ t[y] = F /\ Static(node[y])
  BY DEF StaticNode, ParamBelow
<1>2. Fine(v, q) /\ Fine(z, q)
  <2> HIDE DEF F, E
  <2> QED
    BY <1>1, ReadsFine DEF E
<1>3. SegmentRead(z, v, q, c, rest)
  <2> HIDE DEF E, c, F
  <2>1. z = Reads(E, q) /\ rest = From(q, Reads(E, q).at)
    BY DEF E
  <2>2. SegmentRead(Reads(E, q), Reads(E \o <<c>>, q), q, c, From(q, Reads(E, q).at))
    BY <1>1, <2>1, ReadsParam
  <2> QED
    BY <1>1, <2>1, <2>2
<1> HIDE DEF E, F, v
<1>4. /\ v.ok /\ v.at = z.at + end /\ v.params = more /\ From(rest, end) = From(q, v.at)
      /\ end \in Nat /\ (end < Len(rest) <=> From(q, v.at) # <<>>)
      /\ end < Len(rest) \/ v.at = Len(q)
  BY <1>3 DEF SegmentRead
<1>5. k + 1 <= v.at
  <2>1. z.at \in Nat
    BY <1>2 DEF Fine
  <2> HIDE DEF end
  <2> QED
    BY <1>4, <2>1
<1>6. CASE end < Len(rest)
  <2>1. m = IF wc.children # <<>> THEN Looking(y, From(rest, end), more)
            ELSE Missing(Len(rest) = end + 1)
    BY <1>6 DEF TakeSegment
  <2>2. From(q, v.at) # <<>>
    BY <1>4, <1>6
  <2>3. CASE wc.children # <<>>
    <3>1. m = Looking(y, From(q, v.at), v.params)
      BY <1>4, <2>1, <2>3
    <3>2. y \in DOMAIN node /\ Static(node[y]) /\ Reads(t[y], q) = v
      BY <1>1, <2>3 DEF v
    <3> HIDE DEF y
    <3>3. Reached(m, t, y, q, k + 1)
      BY <1>4, <1>5, <3>1, <3>2 DEF Reached
    <3> QED
      BY <1>2, <1>4, <2>2, <2>3, <3>3 DEF ParamTurned, v, F, y
  <2>4. CASE wc.children = <<>>
    <3>1. Missed(m)
      BY <2>1, <2>4 DEF Missed
    <3> QED
      BY <1>2, <1>4, <2>2, <2>4, <3>1 DEF ParamTurned, v, F
  <2> QED
    BY <2>3, <2>4
<1>7. CASE ~(end < Len(rest))
  <2>1. m = IF wc.data # NoData THEN Found(wc.data, more)
            ELSE Missing(Len(wc.children) = 1 /\ node[y].path = <<"/">> /\ node[y].data # NoData)
    BY <1>7 DEF TakeSegment
  <2>2. From(q, v.at) = <<>> /\ v.at = Len(q)
    BY <1>4, <1>7
  <2>3. IF wc.data # NoData THEN m = Found(wc.data, v.params) ELSE Missed(m)
    BY <1>4, <2>1 DEF Missed
  <2> QED
    BY <1>2, <1>4, <2>2, <2>3 DEF ParamTurned, v, F
<1> QED
  BY <1>6, <1>7

\* The handler of a "*name" below text a, and what it captures of rest.
CatchAllTurned(m, a, c, y, rest, params) ==
  /\ c \in CatchAll /\ node[y].data = a \o <<"/", c>> /\ node[y].data \in routes
  /\ m = Found(node[y].data, Append(params, Capture(c, Tail(rest))))

\* A "*name" takes the rest of the path.
LEMMA TakesRest ==
  ASSUME NEW t, NEW x, NEW w, CatchAllBelow(t, x, w), NEW rest, NEW params,
         NEW y, y = node[w].children[1], NEW m, m = TakeRest(node[y], rest, params)
  PROVE  \E c : CatchAllTurned(m, End(node, t, x), c, y, rest, params)
<1>1. PICK c \in CatchAll : node[y].path = <<"/", c>>
  BY DEF CatchAllBelow
<1>2. t[y] = End(node, t, x) /\ node[y].data # NoData /\ DataOK(node, t, routes, y)
  BY DEF CatchAllBelow
<1>3. node[y].data = t[y] \o node[y].path /\ node[y].data \in routes
  BY <1>2 DEF DataOK, End
<1>4. Last(node[y].path) = c
  <2> DEFINE s == <<"/", c>>
  <2>1. Len(s) = 2 /\ s[2] = c
    OBVIOUS
  <2>2. node[y].path = s
    BY <1>1
  <2> HIDE DEF s
  <2> QED
    BY <2>1, <2>2 DEF Last
<1>5. m = Found(node[y].data, Append(params, Capture(c, Tail(rest))))
  BY <1>4 DEF TakeRest
<1>6. node[y].data = End(node, t, x) \o <<"/", c>>
  BY <1>1, <1>2, <1>3
<1> QED
  BY <1>3, <1>5, <1>6 DEF CatchAllTurned

-----------------------------------------------------------------------------
(* The handler found is one that matches                                   *)

\* The route d may serve path q.
Right(d, q) ==
  /\ d \in routes
  /\ \/ q \in Served[d]
     \/ Last(d) \in CatchAll /\ Reading(d, q)[Len(d) - 2].ok

\* A route that has been read to the end of the path.
LEMMA ReadRight ==
  ASSUME routes \subseteq Pattern, NEW q \in Path, NEW d \in routes, Reads(d, q).ok,
         Reads(d, q).at = Len(q)
  PROVE  Right(d, q)
<1>1. d \in Pattern /\ Matches(d, q)
  BY DEF Reads, Matches
<1>2. Served[d] = {r \in Path : Matches(d, r)}
  BY <1>1 DEF Served
<1> QED
  BY <1>1, <1>2 DEF Right

\* One with a catch-all, up to the slash.
LEMMA CatchAllRight ==
  ASSUME NEW q, NEW a \in Seq(Token), NEW c \in CatchAll, NEW d \in routes, d = a \o <<"/", c>>,
         Reads(a, q).ok
  PROVE  Right(d, q)
<1> DEFINE s == <<"/", c>>
<1>1. s \in Seq(Token) /\ Len(s) = 2 /\ s[2] = c
  BY TokenAssumption DEF Token, Wildcard
<1>2. d = a \o s
  OBVIOUS
<1> HIDE DEF s
<1>3. /\ d \in Seq(Token) /\ Len(d) = Len(a) + Len(s) /\ IsPrefix(a, d)
      /\ \A i \in 1 .. Len(s) : d[Len(a) + i] = s[i]
  <2>1. s \in Seq(Token)
    BY <1>1
  <2>2. /\ a \o s \in Seq(Token) /\ Len(a \o s) = Len(a) + Len(s) /\ IsPrefix(a, a \o s)
        /\ \A i \in 1 .. Len(s) : (a \o s)[Len(a) + i] = s[i]
    BY <2>1, ConcatFacts
  <2> QED
    BY <1>2, <2>2
<1>4. Len(a) \in Nat /\ Len(d) = Len(a) + 2 /\ d[Len(a) + 2] = c
  BY <1>1, <1>3, LenProperties
<1>5. Last(d) = c /\ Len(d) - 2 = Len(a)
  BY <1>4 DEF Last
<1>6. Reading(d, q)[Len(a)] = Reads(a, q)
  BY <1>3, ReadsPrefix
<1> QED
  BY <1>5, <1>6 DEF Right

\* A lookup has found a handler that may serve the path, or none, or is on its way.
Sound(s, t, q, k) ==
  \/ Missed(s)
  \/ \E d, params : s = Found(d, params) /\ Right(d, q)
  \/ \E x : Reached(s, t, x, q, k)

\* A turn keeps a lookup sound, and reads a character unless it is the last one.
LEMMA SoundStep ==
  ASSUME routes \subseteq Pattern, NEW t, NEW T, RestsAt(node, t, T, routes), NEW q \in Path,
         NEW k \in Nat, NEW s, Sound(s, t, q, k)
  PROVE  Sound(LookTurn(s), t, q, k + 1)
<1> DEFINE m == LookTurn(s)
<1>1. CASE Missed(s)
  <2>1. s.over
    BY <1>1 DEF Missed, Missing
  <2>2. m = s
    BY <2>1 DEF LookTurn
  <2> QED
    BY <1>1, <2>2 DEF Sound
<1>2. CASE \E d, params : s = Found(d, params) /\ Right(d, q)
  <2>1. s.over
    BY <1>2 DEF Found
  <2>2. m = s
    BY <2>1 DEF LookTurn
  <2>3. \E d, params : m = Found(d, params) /\ Right(d, q)
    BY <1>2, <2>2
  <2> HIDE DEF m
  <2>4. Sound(m, t, q, k + 1)
    BY <2>3 DEF Sound
  <2> QED
    BY <2>4 DEF m
<1>3. ASSUME NEW x, Reached(s, t, x, q, k) PROVE Sound(m, t, q, k + 1)
  <2> DEFINE n == node[x]
             E == End(node, t, x)
             z == Reads(E, q)
             rest == From(q, z.at)
             w == n.wild[1]
             j == Index(n.indices, rest[1])
  <2>1. q \in Seq(Char)
    BY PathAssumption
  <2>2. x \in DOMAIN node /\ Static(n)
    BY <1>3 DEF Reached
  <2>3. StaticNode(t, x)
    BY <2>2, StaticNodeFacts
  <2>4. Turned(s, n, z, q) /\ Fine(z, q) /\ (n.path # <<>> => k + 1 <= z.at)
    BY <1>3, <2>1, <2>3, PathReached
  <2>5. E \in Seq(Token) /\ DataOK(node, t, routes, x)
    BY <2>3 DEF StaticNode
  <2> HIDE DEF E, z, rest, n, m
  <2>6. /\ ~z.ok => Missed(m)
        /\ z.ok /\ rest = <<>> =>
             z.at = Len(q) /\ IF n.data # NoData THEN m = Found(n.data, z.params) ELSE Missed(m)
        /\ z.ok /\ rest # <<>> =>
             IF Contains(n.indices, rest[1]) THEN m = Looking(n.children[j], rest, z.params)
             ELSE IF n.wild = <<>> THEN Missed(m)
             ELSE IF node[w].type = "param" THEN m = TakeSegment(node[w], rest, z.params)
             ELSE m = TakeRest(node[node[w].children[1]], rest, z.params)
    BY <2>4 DEF Turned, m, rest
  <2>7. CASE Missed(m)
    BY <2>7 DEF Sound
  <2>8. CASE z.ok /\ rest = <<>> /\ n.data # NoData
    <3>1. m = Found(n.data, z.params) /\ z.at = Len(q)
      BY <2>6, <2>8
    <3>2. n.data = E /\ n.data \in routes
      BY <2>5, <2>8 DEF DataOK, n, E
    <3>3. Right(n.data, q)
      BY <2>8, <3>1, <3>2, ReadRight DEF z
    <3> QED
      BY <3>1, <3>3 DEF Sound
  <2>9. CASE z.ok /\ rest # <<>> /\ Contains(n.indices, rest[1])
    <3>1. m = Looking(n.children[j], rest, z.params)
      BY <2>6, <2>9
    <3>2. /\ n \in NodeType(DOMAIN node) /\ Len(n.indices) = Len(n.children)
          /\ n.children # <<>> => n.path # <<>>
          /\ \A i \in 1 .. Len(n.children) :
               n.children[i] \in DOMAIN node /\ t[n.children[i]] = E /\ Static(node[n.children[i]])
      BY <2>3 DEF StaticNode, n, E
    <3>3. n.indices \in Seq(Char) /\ n.children \in Seq(DOMAIN node)
      BY <3>2 DEF NodeType
    <3>4. j \in 1 .. Len(n.children)
      <4>1. PICK i \in 1 .. Len(n.indices) : n.indices[i] = rest[1]
        BY <2>9 DEF Contains
      <4>2. j \in 0 .. Len(n.indices) /\ j > 0
        BY <3>3, <4>1, IndexFacts
      <4> HIDE DEF j
      <4> QED
        BY <3>2, <3>3, <4>2, LenProperties
    <3>5. n.path # <<>>
      <4>1. n.children # <<>>
        BY <3>3, <3>4, EmptySeq
      <4> QED
        BY <3>2, <4>1
    <3> DEFINE y == n.children[j]
    <3>6. y \in DOMAIN node /\ Static(node[y]) /\ Reads(t[y], q) = z
      BY <3>2, <3>4 DEF z
    <3> HIDE DEF y
    <3>7. m = Looking(y, From(q, z.at), z.params)
      BY <3>1 DEF y, rest
    <3>8. Reached(m, t, y, q, k + 1)
      BY <2>4, <2>9, <3>5, <3>6, <3>7 DEF Reached
    <3> QED
      BY <3>8 DEF Sound
  <2>10. CASE /\ z.ok /\ rest # <<>> /\ ~Contains(n.indices, rest[1]) /\ n.wild # <<>>
              /\ node[w].type = "param"
    <3>1. m = TakeSegment(node[w], rest, z.params)
      BY <2>6, <2>10
    <3>2. ParamBelow(t, x, w)
      BY <2>2, <2>10, WildBelow DEF n
    <3>3. k + 1 <= z.at
      BY <2>4, <3>2 DEF ParamBelow, n
    <3> DEFINE F == End(node, t, w)
               v == Reads(F, q)
    <3> HIDE DEF w
    <3>4. ParamTurned(m, t, w, q, k, v)
      BY <2>1, <2>3, <2>10, <3>1, <3>2, <3>3, TakesSegment DEF z, E, rest
    <3> HIDE DEF F, v
    <3>5. CASE Missed(m)
      BY <3>5 DEF Sound
    <3>6. CASE Reached(m, t, node[w].children[1], q, k + 1)
      BY <3>6 DEF Sound
    <3>7. CASE v.ok /\ v.at = Len(q) /\ node[w].data # NoData /\ m = Found(node[w].data, v.params)
      <4>1. node[w].data = F /\ node[w].data \in routes
        BY <3>2, <3>7 DEF ParamBelow, DataOK, F
      <4>2. Right(node[w].data, q)
        BY <3>7, <4>1, ReadRight DEF v
      <4> QED
        BY <3>7, <4>2 DEF Sound
    <3> QED
      BY <3>4, <3>5, <3>6, <3>7 DEF ParamTurned
  <2>11. CASE /\ z.ok /\ rest # <<>> /\ ~Contains(n.indices, rest[1]) /\ n.wild # <<>>
              /\ node[w].type # "param"
    <3> DEFINE y == node[w].children[1]
    <3>1. m = TakeRest(node[y], rest, z.params)
      BY <2>6, <2>11
    <3>2. CatchAllBelow(t, x, w)
      BY <2>2, <2>11, WildBelow DEF n
    <3> HIDE DEF w
    <3>3. y = node[w].children[1]
      OBVIOUS
    <3> HIDE DEF y
    <3>4. PICK c : CatchAllTurned(m, E, c, y, rest, z.params)
      BY <3>1, <3>2, <3>3, TakesRest DEF E
    <3>5. /\ c \in CatchAll /\ node[y].data = E \o <<"/", c>> /\ node[y].data \in routes
          /\ m = Found(node[y].data, Append(z.params, Capture(c, Tail(rest))))
      BY <3>4 DEF CatchAllTurned
    <3>6. Right(node[y].data, q)
      BY <2>5, <2>11, <3>5, CatchAllRight DEF z
    <3> QED
      BY <3>5, <3>6 DEF Sound
  <2> QED
    BY <2>6, <2>7, <2>8, <2>9, <2>10, <2>11
<1> QED
  BY <1>1, <1>2, <1>3 DEF Sound

\* The first turn is at the root.
LEMMA StartReached ==
  ASSUME NEW t, NEW T, RestsAt(node, t, T, routes), NEW q \in Path
  PROVE  Reached(Look(q)[0], t, Root, q, 0)
<1> DEFINE e == <<>>
           r == Reads(e, q)
<1>1. Root \in DOMAIN node /\ Static(node[Root]) /\ t[Root] = e
  BY DEF RestsAt, Tree
<1>2. Len(e) = 0
  BY EmptySeq
<1>3. Look(q)[0] = Looking(Root, q, <<>>)
  BY LookUnfolds
<1> HIDE DEF e
<1>4. r = [ok |-> TRUE, at |-> 0, params |-> <<>>]
  BY <1>2, ReadUnfolds DEF Reads
<1>5. From(q, 0) = q
  <2>1. q \in Seq(Char) /\ Len(q) \in Nat
    BY PathAssumption, LenProperties
  <2>2. /\ From(q, 0) \in Seq(Char) /\ Len(From(q, 0)) = Len(q)
        /\ \A i \in 1 .. Len(q) : From(q, 0)[i] = q[i]
    <3>1. /\ From(q, 0) \in Seq(Char) /\ Len(From(q, 0)) = IF 0 <= Len(q) THEN Len(q) - 0 ELSE 0
          /\ \A i \in 1 .. Len(q) - 0 : From(q, 0)[i] = q[0 + i]
      BY <2>1, FromFacts
    <3> QED
      BY <2>1, <3>1
  <2> QED
    BY <2>1, <2>2, SeqEqual
<1> HIDE DEF r
<1>6. r.ok /\ r.at = 0 /\ r.params = <<>>
  BY <1>4
<1>7. Reads(t[Root], q) = r
  BY <1>1 DEF r
<1> QED
  BY <1>1, <1>3, <1>5, <1>6, <1>7 DEF Reached

\* A lookup cannot still be on its way after more turns than the path has characters.
LEMMA ReachedInTime ==
  ASSUME NEW t, NEW T, RestsAt(node, t, T, routes), NEW q \in Path,
         NEW s, NEW x, NEW k, k = Len(q) + 1
  PROVE  ~Reached(s, t, x, q, k)
<1> SUFFICES ASSUME Reached(s, t, x, q, k) PROVE FALSE
  OBVIOUS
<1> DEFINE r == Reads(t[x], q)
<1>1. x \in DOMAIN node /\ r.ok /\ k <= r.at
  BY DEF Reached
<1>2. t[x] \in Seq(Token) /\ q \in Seq(Char)
  BY <1>1, PathAssumption DEF RestsAt, Tree
<1>3. Fine(r, q) /\ Len(q) \in Nat
  BY <1>2, ReadsFine, LenProperties
<1> HIDE DEF r
<1>4. r.at \in Nat /\ r.at <= Len(q)
  BY <1>1, <1>3 DEF Fine
<1> QED
  BY <1>1, <1>3, <1>4

\* What a lookup finds may serve the path.
LEMMA LookupSound ==
  ASSUME routes \subseteq Pattern, NEW t, NEW T, RestsAt(node, t, T, routes), NEW q \in Path
  PROVE  Missed(Lookup(q)) \/ \E d, params : Lookup(q) = Found(d, params) /\ Right(d, q)
<1> DEFINE L == Look(q)
           S == {k \in Nat : Sound(L[k], t, q, k)}
<1>1. \A k \in Nat : L[k + 1] = LookTurn(L[k])
  BY LookUnfolds
<1>2. Reached(L[0], t, Root, q, 0)
  BY StartReached
<1> HIDE DEF L
<1>3. 0 \in S
  BY <1>2 DEF Sound
<1>4. ASSUME NEW k \in Nat, k \in S PROVE k + 1 \in S
  <2>1. Sound(L[k], t, q, k)
    BY <1>4
  <2>2. Sound(LookTurn(L[k]), t, q, k + 1)
    BY <2>1, SoundStep
  <2> QED
    BY <1>1, <2>2
<1> DEFINE k == Len(q) + 1
<1> HIDE DEF S
<1>5. k \in Nat /\ Lookup(q) = L[k]
  <2>1. q \in Seq(Char) /\ Len(q) \in Nat
    BY PathAssumption, LenProperties
  <2> QED
    BY <2>1 DEF Lookup, L
<1>6. k \in S
  BY <1>3, <1>4, <1>5, SetInduction
<1>7. \A x : ~Reached(L[k], t, x, q, k)
  BY ReachedInTime
<1> HIDE DEF k
<1>8. Sound(L[k], t, q, k)
  BY <1>6 DEF S
<1> QED
  BY <1>5, <1>7, <1>8 DEF Sound

\* The invariant makes every lookup sound.
LEMMA InvLookupMatches == Inv => LookupMatches
<1> SUFFICES ASSUME Inv, call.loop = "idle", NEW q \in Path, Lookup(q).data # NoData
             PROVE  Right(Lookup(q).data, q)
  BY DEF LookupMatches, Right
<1>1. routes \subseteq Pattern
  BY DEF Inv
<1>2. PICK t, T : RestsAt(node, t, T, routes)
  BY DEF Inv
<1>3. Missed(Lookup(q)) \/ \E d, params : Lookup(q) = Found(d, params) /\ Right(d, q)
  BY <1>1, <1>2, LookupSound
<1> DEFINE m == Lookup(q)
<1> HIDE DEF m
<1>4. CASE Missed(m)
  BY <1>4 DEF Missed, Missing, m
<1>5. ASSUME NEW d, NEW params, m = Found(d, params), Right(d, q) PROVE Right(m.data, q)
  <2>1. m.data = d
    BY <1>5 DEF Found
  <2> QED
    BY <1>5, <2>1
<1> QED
  BY <1>3, <1>4, <1>5 DEF m

\* However the routes are registered, a handler that a request comes to is one whose
\* pattern matches its path, or one with a catch-all whose pattern matches the path up to
\* the slash before the catch-all (getValue in tree.go).
THEOREM LookupsMatch == Spec => []LookupMatches
<1>1. Init => Inv
  BY InitRests
<1>2. Inv /\ [Next]_vars => Inv'
  BY NextInv
<1>3. Inv => LookupMatches
  BY InvLookupMatches
<1> QED
  BY <1>1, <1>2, <1>3, PTL DEF Spec

-----------------------------------------------------------------------------
(* The handler found is that of the route preferred                        *)

\* What follows a text in a sequence that begins with the text and more.
LEMMA PrefixNext ==
  ASSUME NEW a \in Seq(Token), NEW b \in Seq(Token), b # <<>>, NEW r \in Seq(Token),
         IsPrefix(a \o b, r)
  PROVE  Len(a) \in Nat /\ Len(a) < Len(r) /\ r[Len(a) + 1] = b[1] /\ SubSeq(r, 1, Len(a)) = a
<1> DEFINE e == a \o b
<1>1. Len(a) \in Nat /\ Len(b) \in Nat /\ Len(r) \in Nat /\ Len(b) # 0
  BY EmptySeq, LenProperties
<1>2. /\ e \in Seq(Token) /\ Len(e) = Len(a) + Len(b) /\ IsPrefix(e, r)
      /\ \A i \in 1 .. Len(a) : e[i] = a[i]
      /\ \A i \in 1 .. Len(b) : e[Len(a) + i] = b[i]
  BY ConcatFacts
<1> HIDE DEF e
<1>3. Len(e) <= Len(r) /\ \A i \in 1 .. Len(e) : e[i] = r[i]
  <2>1. e \in Seq(Token) /\ IsPrefix(e, r)
    BY <1>2
  <2>2. IsPrefix(e, r) <=> Len(e) <= Len(r) /\ \A i \in 1 .. Len(e) : e[i] = r[i]
    BY <2>1, PrefixFacts
  <2> QED
    BY <2>1, <2>2
<1>4. Len(a) < Len(r)
  BY <1>1, <1>2, <1>3
<1>5. r[Len(a) + 1] = b[1]
  <2>1. 1 \in 1 .. Len(b) /\ Len(a) + 1 \in 1 .. Len(e)
    BY <1>1, <1>2
  <2> QED
    BY <1>2, <1>3, <2>1
<1>6. SubSeq(r, 1, Len(a)) = a
  <2>1. Len(a) \in 0 .. Len(r)
    BY <1>1, <1>4
  <2>2. /\ SubSeq(r, 1, Len(a)) \in Seq(Token) /\ Len(SubSeq(r, 1, Len(a))) = Len(a)
        /\ \A i \in 1 .. Len(a) : SubSeq(r, 1, Len(a))[i] = r[i]
    BY <2>1, SliceFacts
  <2>3. \A i \in 1 .. Len(a) : a[i] = r[i]
    <3>1. \A i \in 1 .. Len(a) : i \in 1 .. Len(e)
      BY <1>1, <1>2
    <3> QED
      BY <1>2, <1>3, <3>1
  <2> QED
    BY <2>2, <2>3, SeqEqual
<1> QED
  BY <1>1, <1>4, <1>5, <1>6

\* A route's way through node x.
Passes(t, T, r, x) ==
  /\ r \in routes /\ r \in Seq(Token) /\ r # NoData /\ x \in DOMAIN node
  /\ End(node, t, x) \in Seq(Token) /\ IsPrefix(End(node, t, x), r)
  /\ t[x] \in Seq(Token) /\ node[x].path \in Seq(Token)
  /\ node[x].data = r \/ \E y \in Kids(node[x]) : <<r, y>> \in T

\* Ways are ways of routes.
LEMMA WayPasses ==
  ASSUME NEW t, NEW T, RestsAt(node, t, T, routes), NEW r, NEW x, <<r, x>> \in T
  PROVE  Passes(t, T, r, x)
<1>1. OnWay(node, t, T, routes, <<>>, Root, r, x)
  BY DEF RestsAt, Ways
<1>2. r \in Seq(Token) /\ r # <<>>
  BY <1>1, PatternTokens DEF OnWay
<1>3. x \in DOMAIN node /\ r \in routes
  BY <1>1, <1>2 DEF OnWay
<1>4. t[x] \in Seq(Token) /\ node[x].path \in Seq(Token)
  BY <1>3 DEF RestsAt, Tree, NodeOK, NodeType
<1>5. End(node, t, x) \in Seq(Token)
  BY <1>4, TokenConcat DEF End
<1> QED
  BY <1>1, <1>2, <1>3, <1>4, <1>5 DEF OnWay, Passes, NoData

\* The first character of what a node stands for is the next one of its routes.
StartsWith(t, y, r, c) ==
  /\ Len(t[y]) \in Nat /\ Len(t[y]) < Len(r) /\ r[Len(t[y]) + 1] = c
  /\ SubSeq(r, 1, Len(t[y])) = t[y]

\* A static node stands for its index character.
LEMMA NextToken ==
  ASSUME NEW t, NEW T, RestsAt(node, t, T, routes), NEW r, NEW y, <<r, y>> \in T,
         Static(node[y])
  PROVE  Passes(t, T, r, y) /\ StartsWith(t, y, r, IndexOf(node[y]))
<1> DEFINE n == node[y]
           a == t[y]
           b == n.path
<1>1. Passes(t, T, r, y)
  BY WayPasses
<1>2. /\ y \in DOMAIN node /\ a \in Seq(Token) /\ b \in Seq(Token) /\ r \in Seq(Token)
      /\ IsPrefix(a \o b, r) /\ r # NoData
      /\ n.data = r \/ \E x \in Kids(n) : <<r, x>> \in T
  BY <1>1 DEF Passes, End
<1>3. CASE b # <<>>
  <2> DEFINE u == a
             v == b
  <2>1. u \in Seq(Token) /\ v \in Seq(Token) /\ v # <<>> /\ r \in Seq(Token) /\ IsPrefix(u \o v, r)
    BY <1>2, <1>3
  <2> HIDE DEF u, v
  <2>2. Len(u) \in Nat /\ Len(u) < Len(r) /\ r[Len(u) + 1] = v[1] /\ SubSeq(r, 1, Len(u)) = u
    BY <2>1, PrefixNext
  <2>3. IndexOf(n) = v[1]
    BY <1>3 DEF IndexOf, v
  <2> QED
    BY <1>1, <2>2, <2>3 DEF StartsWith, u
<1>4. CASE b = <<>>
  <2>1. /\ n.data = NoData /\ n.children = <<>>
        /\ \A i \in 1 .. Len(n.wild) : node[n.wild[i]].type = "catchAll"
    BY <1>2, <1>4 DEF RestsAt, Tree, NodeOK, StaticOK
  <2>2. PICK x \in Kids(n) : <<r, x>> \in T
    BY <1>2, <2>1
  <2>3. Len(<<>>) = 0
    BY EmptySeq
  <2>4. {n.children[i] : i \in 1 .. Len(n.children)} = {}
    BY <2>1, <2>3
  <2>5. n.wild # <<>>
    <3>1. PICK i \in 1 .. Len(n.wild) : TRUE
      BY <2>2, <2>4 DEF Kids
    <3> QED
      BY <2>3, <3>1
  <2> DEFINE w == n.wild[1]
  <2>6. /\ Kids(n) = {n.children[i] : i \in 1 .. Len(n.children)} \cup {w}
        /\ IF node[w].type = "param" THEN ParamBelow(t, y, w) ELSE CatchAllBelow(t, y, w)
    BY <1>2, <2>5, WildBelow
  <2> HIDE DEF w
  <2>7. x = w
    BY <2>2, <2>4, <2>6
  <2>8. CatchAllBelow(t, y, w)
    BY <1>4, <2>6 DEF ParamBelow
  <2> DEFINE z == node[w].children[1]
  <2>9. /\ node[w].data = NoData /\ Kids(node[w]) = {z} /\ t[z] = a \o b
    BY <2>8 DEF CatchAllBelow, End
  <2>10. PICK c \in CatchAll : node[z].path = <<"/", c>>
    BY <2>8 DEF CatchAllBelow
  <2> HIDE DEF z
  <2>11. Passes(t, T, r, w)
    BY <2>2, <2>7, WayPasses
  <2>12. <<r, z>> \in T
    BY <1>2, <2>9, <2>11 DEF Passes
  <2>13. Passes(t, T, r, z)
    BY <2>12, WayPasses
  <2> DEFINE s == <<"/", c>>
  <2>14. Len(s) = 2 /\ s[1] = "/"
    OBVIOUS
  <2>15. node[z].path = s
    BY <2>10
  <2> HIDE DEF s
  <2>16. s # <<>> /\ s \in Seq(Token)
    <3>1. s # <<>>
      BY <2>3, <2>14
    <3>2. s \in Seq(Token)
      BY <2>13, <2>15 DEF Passes
    <3> QED
      BY <3>1, <3>2
  <2>17. IsPrefix(a \o s, r)
    <3>1. t[z] = a
      BY <1>2, <1>4, <2>9, ConcatEmptySeq
    <3>2. End(node, t, z) = a \o s
      BY <2>15, <3>1 DEF End
    <3> QED
      BY <2>13, <3>2 DEF Passes
  <2>18. Len(a) \in Nat /\ Len(a) < Len(r) /\ r[Len(a) + 1] = s[1] /\ SubSeq(r, 1, Len(a)) = a
    <3> HIDE DEF a
    <3> QED
      BY <1>2, <2>16, <2>17, PrefixNext
  <2>19. IndexOf(n) = s[1]
    BY <1>4, <2>14 DEF IndexOf
  <2> QED
    BY <1>1, <2>18, <2>19 DEF StartsWith
<1> QED
  BY <1>3, <1>4

\* What a reading finds where a token follows: something is left of the path, which begins
\* with the token if that is a character.
NextRead(r, q, c) ==
  LET rest == From(q, r.at) IN
  /\ r.ok /\ rest # <<>>
  /\ c \in Char => rest[1] = c

\* A pattern that can be read to its end goes on in the path.
LEMMA ReadsNext ==
  ASSUME NEW q \in Seq(Char), NEW p \in Seq(Token), Reads(p, q).ok,
         NEW a \in Seq(Token), Len(a) < Len(p), SubSeq(p, 1, Len(a)) = a,
         NEW c \in Char \cup Param, p[Len(a) + 1] = c
  PROVE  NextRead(Reads(a, q), q, c)
<1> DEFINE r == Reads(a, q)
           z == Reading(p, q)[Len(a) + 1]
<1>1. Len(a) \in Nat /\ Len(p) \in Nat /\ IsPrefix(a, p)
  BY LenProperties, SubSeqFull DEF IsPrefix
<1>2. r.ok /\ Fine(r, q)
  BY <1>1, ReadsOk, ReadsFine
<1>3. z = Read(c, q, r)
  <2>1. Reading(p, q)[Len(a)] = r
    BY <1>1, ReadsPrefix
  <2>2. z = Read(p[Len(a) + 1], q, Reading(p, q)[Len(a)])
    BY <1>1, ReadUnfolds
  <2> QED
    BY <2>1, <2>2
<1>4. z.ok
  <2>1. Len(a) + 1 \in 0 .. Len(p)
    BY <1>1
  <2> QED
    BY <2>1, ReadingOk DEF Reads
<1> HIDE DEF r, z
<1> DEFINE rest == From(q, r.at)
<1>5. CASE c \in Param
  <2>1. rest # <<>>
    BY <1>2, <1>3, <1>4, <1>5, ReadParam
  <2>2. c \notin Char
    BY <1>5, TokenAssumption DEF Wildcard
  <2> QED
    BY <1>2, <2>1, <2>2 DEF NextRead, r
<1>6. CASE c \in Char
  <2>1. r.at + 1 <= Len(q) /\ q[r.at + 1] = c
    BY <1>2, <1>3, <1>4, <1>6, ReadChar
  <2>2. r.at \in Nat /\ Len(q) \in Nat
    BY <1>2, LenProperties DEF Fine
  <2>3. rest # <<>>
    <3>1. r.at < Len(q)
      BY <2>1, <2>2
    <3> QED
      BY <2>2, <3>1, FromFacts
  <2>4. rest[1] = c
    <3>1. 1 \in 1 .. Len(q) - r.at
      BY <2>1, <2>2
    <3>2. \A i \in 1 .. Len(q) - r.at : rest[i] = q[r.at + i]
      BY <2>2, FromFacts
    <3> QED
      BY <2>1, <3>1, <3>2
  <2> QED
    BY <1>2, <2>3, <2>4 DEF NextRead, r
<1> QED
  BY <1>5, <1>6

\* A lookup has found the route p, or is on its way.
Aims(s, t, T, p, q, k) ==
  \/ s = Found(p, Reads(p, q).params)
  \/ \E x : Reached(s, t, x, q, k) /\ <<p, x>> \in T

\* The route p, which has a way through x, can be read to the end of the path.
Through(t, T, p, q, x) ==
  /\ Reads(p, q).ok /\ Reads(p, q).at = Len(q)
  /\ Passes(t, T, p, x) /\ StaticNode(t, x)

\* A route whose way goes on to a static child is the lookup's.
LEMMA AimStatic ==
  ASSUME NEW t, NEW T, RestsAt(node, t, T, routes), NEW q \in Seq(Char), NEW p, NEW x,
         Through(t, T, p, q, x), NEW k \in Nat, NEW z, z = Reads(End(node, t, x), q),
         NEW n, n = node[x], NEW i \in 1 .. Len(n.children), <<p, n.children[i]>> \in T,
         n.path # <<>> => k + 1 <= z.at, NEW rest, rest = From(q, z.at)
  PROVE  /\ rest # <<>> /\ Contains(n.indices, rest[1]) /\ Index(n.indices, rest[1]) = i
         /\ Reached(Looking(n.children[i], rest, z.params), t, n.children[i], q, k + 1)
<1> DEFINE E == End(node, t, x)
           y == n.children[i]
           d == n.indices[i]
           s == n.indices
<1>1. /\ n \in NodeType(DOMAIN node) /\ E \in Seq(Token) /\ Len(n.indices) = Len(n.children)
      /\ \A a, b \in 1 .. Len(n.children) : n.indices[a] = n.indices[b] => a = b
      /\ n.children # <<>> => n.path # <<>>
      /\ y \in DOMAIN node /\ t[y] = E /\ Static(node[y]) /\ d = IndexOf(node[y])
  BY DEF Through, StaticNode
<1>2. s \in Seq(Char) /\ Len(n.children) \in Nat /\ d \in Char /\ n.children \in Seq(DOMAIN node)
  <2>1. s \in Seq(Char) /\ n.children \in Seq(DOMAIN node)
    BY <1>1 DEF NodeType
  <2>2. i \in 1 .. Len(s)
    BY <1>1
  <2> QED
    BY <2>1, <2>2, ElementOfSeq, LenProperties
<1>3. Reads(p, q).ok /\ p \in Seq(Token)
  BY DEF Through, Passes
<1>4. StartsWith(t, y, p, IndexOf(node[y]))
  <2>1. <<p, y>> \in T
    OBVIOUS
  <2> HIDE DEF y
  <2> QED
    BY <1>1, <2>1, NextToken
<1>5. Len(E) \in Nat /\ Len(E) < Len(p) /\ p[Len(E) + 1] = d /\ SubSeq(p, 1, Len(E)) = E
  BY <1>1, <1>4 DEF StartsWith
<1> HIDE DEF E, d, s, y
<1>6. NextRead(Reads(E, q), q, d)
  <2>1. d \in Char \cup Param
    BY <1>2
  <2> QED
    BY <1>1, <1>3, <1>5, <2>1, ReadsNext
<1>7. z.ok /\ rest # <<>> /\ rest[1] = d
  BY <1>2, <1>6 DEF NextRead, E
<1>8. i \in 1 .. Len(s)
  BY <1>1 DEF s
<1>9. Contains(s, d)
  BY <1>8 DEF Contains, d, s
<1>10. Index(s, d) = i
  <2>1. Index(s, d) \in 0 .. Len(s) /\ Index(s, d) > 0 /\ s[Index(s, d)] = d
    <3>1. /\ Index(s, d) \in 0 .. Len(s)
          /\ Index(s, d) > 0 => s[Index(s, d)] = d
          /\ \A a \in 1 .. Len(s) : s[a] = d => Index(s, d) > 0 /\ Index(s, d) <= a
      BY <1>2, IndexFacts
    <3>2. s[i] = d
      BY DEF s, d
    <3> QED
      BY <1>8, <3>1, <3>2
  <2> DEFINE j == Index(s, d)
  <2>2. j \in 1 .. Len(s) /\ s[j] = s[i]
    <3>1. s[i] = d
      BY DEF s, d
    <3>2. j \in 0 .. Len(s) /\ j > 0 /\ s[j] = d
      BY <2>1
    <3> HIDE DEF j
    <3>3. j \in 1 .. Len(s)
      BY <1>1, <1>2, <3>2 DEF s
    <3> QED
      BY <3>1, <3>2, <3>3
  <2> HIDE DEF j
  <2>3. j \in 1 .. Len(n.children)
    BY <1>1, <2>2 DEF s
  <2>4. j = i
    BY <1>1, <2>2, <2>3 DEF s
  <2> QED
    BY <2>4 DEF j
<1>11. n.path # <<>>
  <2>1. n.children # <<>>
    <3>1. Len(n.children) # 0
      BY <1>2
    <3> QED
      BY <3>1, EmptySeq
  <2> QED
    BY <1>1, <2>1
<1>12. Reached(Looking(y, rest, z.params), t, y, q, k + 1)
  <2>1. Reads(t[y], q) = z
    BY <1>1 DEF E
  <2> QED
    BY <1>1, <1>7, <1>11, <2>1 DEF Reached
<1> QED
  BY <1>7, <1>9, <1>10, <1>12 DEF s, y

\* A character is preferred over a ":name" only where some route has the character.
LEMMA NoCharacter ==
  ASSUME NEW t, NEW T, RestsAt(node, t, T, routes), NEW q \in Seq(Char), NEW p, NEW x,
         Through(t, T, p, q, x), NEW w, ParamBelow(t, x, w), <<p, w>> \in T, Preferred(p, q),
         NEW rest, rest = From(q, Reads(End(node, t, x), q).at)
  PROVE  rest # <<>> /\ ~Contains(node[x].indices, rest[1])
<1> DEFINE n == node[x]
           E == End(node, t, x)
           c == node[w].path[1]
           z == Reads(E, q)
           s == <<c>>
<1>1. /\ n \in NodeType(DOMAIN node) /\ E \in Seq(Token) /\ Len(n.indices) = Len(n.children)
      /\ \A i \in 1 .. Len(n.children) :
           LET y == n.children[i] IN
           /\ y \in DOMAIN node /\ t[y] = E /\ Static(node[y]) /\ ~Blank(node[y])
           /\ n.indices[i] = IndexOf(node[y])
  BY DEF Through, StaticNode
<1>2. c \in Param /\ End(node, t, w) = E \o s
  BY DEF ParamBelow
<1>3. Reads(p, q).ok /\ p \in Seq(Token)
  BY DEF Through, Passes
<1>4. IsPrefix(E \o s, p)
  <2>1. Passes(t, T, p, w)
    BY WayPasses
  <2> QED
    BY <1>2, <2>1 DEF Passes
<1>5. s \in Seq(Token) /\ s # <<>> /\ s[1] = c
  BY <1>2 DEF Token, Wildcard
<1> HIDE DEF E, c, s
<1>6. Len(E) \in Nat /\ Len(E) < Len(p) /\ p[Len(E) + 1] = c /\ SubSeq(p, 1, Len(E)) = E
  <2>1. Len(E) \in Nat /\ Len(E) < Len(p) /\ p[Len(E) + 1] = s[1] /\ SubSeq(p, 1, Len(E)) = E
    BY <1>1, <1>3, <1>4, <1>5, PrefixNext
  <2> QED
    BY <1>5, <2>1
<1>7. NextRead(z, q, c)
  BY <1>1, <1>2, <1>3, <1>6, ReadsNext
<1>8. rest # <<>>
  BY <1>7 DEF NextRead, E
<1>9. rest[1] = q[z.at + 1]
  <2>1. Fine(z, q)
    BY <1>1, ReadsFine
  <2> HIDE DEF z
  <2>2. z.at \in Nat /\ Len(q) \in Nat
    BY <2>1, LenProperties DEF Fine
  <2>3. rest = From(q, z.at)
    BY DEF z, E
  <2>4. /\ From(q, z.at) # <<>> <=> z.at < Len(q)
        /\ \A i \in 1 .. Len(q) - z.at : From(q, z.at)[i] = q[z.at + i]
    BY <2>2, FromFacts
  <2>5. z.at < Len(q)
    BY <1>8, <2>3, <2>4
  <2>6. 1 \in 1 .. Len(q) - z.at
    BY <2>2, <2>5
  <2> QED
    BY <2>3, <2>4, <2>6
<1>10. Reading(p, q)[Len(E)] = z
  <2>1. IsPrefix(E, p)
    BY <1>1, <1>6, LenProperties, SubSeqFull DEF IsPrefix
  <2> QED
    BY <1>1, <1>3, <2>1, ReadsPrefix
<1>11. \A r \in routes : ~(/\ Len(r) >= Len(E) + 1 /\ SubSeq(r, 1, Len(E)) = SubSeq(p, 1, Len(E))
                           /\ r[Len(E) + 1] = rest[1])
  <2> DEFINE i == Len(E) + 1
  <2>1. i \in 1 .. Len(p) /\ i - 1 = Len(E)
    <3>1. Len(p) \in Nat
      BY <1>3, LenProperties
    <3> QED
      BY <1>6, <3>1
  <2>2. p[i] \in Param
    BY <1>2, <1>6
  <2> HIDE DEF i, z
  <2>3. \A r \in routes :
          ~(/\ Len(r) >= i /\ SubSeq(r, 1, i - 1) = SubSeq(p, 1, i - 1)
            /\ r[i] = q[Reading(p, q)[i - 1].at + 1])
    BY <2>1, <2>2 DEF Preferred
  <2>4. q[Reading(p, q)[i - 1].at + 1] = rest[1]
    BY <1>9, <1>10, <2>1
  <2> QED
    BY <2>1, <2>3, <2>4 DEF i
<1>12. ASSUME Contains(n.indices, rest[1]) PROVE FALSE
  <2>1. PICK i \in 1 .. Len(n.indices) : n.indices[i] = rest[1]
    BY <1>12 DEF Contains
  <2> DEFINE y == n.children[i]
  <2>2. y \in DOMAIN node /\ t[y] = E /\ Static(node[y]) /\ ~Blank(node[y]) /\ IndexOf(node[y]) = rest[1]
    BY <1>1, <2>1
  <2> HIDE DEF y
  <2>3. PICK r : <<r, y>> \in T
    BY <2>2 DEF RestsAt, Ways
  <2>4. Passes(t, T, r, y) /\ StartsWith(t, y, r, IndexOf(node[y]))
    BY <2>2, <2>3, NextToken
  <2>5. r \in routes /\ r \in Seq(Token)
    BY <2>4 DEF Passes
  <2>6. Len(E) < Len(r) /\ r[Len(E) + 1] = rest[1] /\ SubSeq(r, 1, Len(E)) = E
    BY <2>2, <2>4 DEF StartsWith
  <2>7. Len(r) >= Len(E) + 1
    <3>1. Len(r) \in Nat
      BY <2>5, LenProperties
    <3> QED
      BY <1>6, <2>6, <3>1
  <2> QED
    BY <1>6, <1>11, <2>5, <2>6, <2>7
<1> QED
  BY <1>8, <1>12

\* The rest of the path but for its first character.
LEMMA TailFrom ==
  ASSUME NEW S, NEW q \in Seq(S), NEW k \in Nat, From(q, k) # <<>>
  PROVE  Tail(From(q, k)) = From(q, k + 1)
<1> DEFINE r == From(q, k)
<1>1. r \in Seq(S) /\ k < Len(q) /\ Len(q) \in Nat
  BY FromFacts, LenProperties
<1>2. From(r, 1) = From(q, k + 1)
  <2>1. k + 1 <= Len(q)
    BY <1>1
  <2> QED
    BY <2>1, FromFrom
<1>3. r # <<>>
  OBVIOUS
<1> HIDE DEF r
<1>4. Tail(r) = SubSeq(r, 2, Len(r))
  BY <1>1, <1>3, TailIsSubSeq
<1>5. Tail(r) = From(r, 1)
  BY <1>4 DEF From
<1> QED
  BY <1>2, <1>5 DEF r

\* A route whose way goes on to a ":name" is the lookup's, if nothing is preferred.
LEMMA AimParam ==
  ASSUME NEW t, NEW T, RestsAt(node, t, T, routes), NEW q \in Seq(Char), NEW p, NEW x,
         Through(t, T, p, q, x), NEW w, ParamBelow(t, x, w), <<p, w>> \in T, NEW k \in Nat,
         NEW z, z = Reads(End(node, t, x), q), z.ok, k + 1 <= z.at, NEW rest, rest = From(q, z.at),
         rest # <<>>, NEW m, m = TakeSegment(node[w], rest, z.params)
  PROVE  Aims(m, t, T, p, q, k + 1)
<1> DEFINE wc == node[w]
           F == End(node, t, w)
           v == Reads(F, q)
           y == wc.children[1]
<1>1. ParamTurned(m, t, w, q, k, v)
  BY TakesSegment DEF Through
<1>2. /\ F \in Seq(Token) /\ DataOK(node, t, routes, w)
      /\ Kids(wc) = IF wc.children = <<>> THEN {} ELSE {y}
      /\ wc.children # <<>> =>
           y \in DOMAIN node /\ t[y] = F /\ Static(node[y]) /\ IndexOf(node[y]) = "/"
  BY DEF ParamBelow
<1>3. Reads(p, q).ok /\ Reads(p, q).at = Len(q) /\ p \in Seq(Token)
  BY DEF Through, Passes
<1>4. p # NoData /\ (wc.data = p \/ \E u \in Kids(wc) : <<p, u>> \in T)
  BY WayPasses DEF Passes
<1>5. CASE wc.data = p
  <2>1. p = F
    BY <1>2, <1>4, <1>5 DEF DataOK
  <2>2. v = Reads(p, q)
    BY <2>1
  <2> HIDE DEF F, v
  <2>3. v.at = Len(q) /\ Len(q) \in Nat
    BY <1>3, <2>2, LenProperties
  <2>4. From(q, v.at) = <<>>
    <3>1. From(q, Len(q)) # <<>> <=> Len(q) < Len(q)
      BY <2>3, FromFacts
    <3> QED
      BY <2>3, <3>1
  <2>5. m = Found(wc.data, v.params)
    BY <1>1, <1>4, <1>5, <2>4 DEF ParamTurned
  <2> QED
    BY <1>5, <2>2, <2>5 DEF Aims
<1>6. CASE \E u \in Kids(wc) : <<p, u>> \in T
  <2>1. wc.children # <<>> /\ <<p, y>> \in T
    BY <1>2, <1>6
  <2> HIDE DEF F, y
  <2>2. StartsWith(t, y, p, "/")
    BY <1>2, <2>1, NextToken
  <2>3. Len(F) < Len(p) /\ p[Len(F) + 1] = "/" /\ SubSeq(p, 1, Len(F)) = F
    BY <1>2, <2>1, <2>2 DEF StartsWith
  <2>4. NextRead(Reads(F, q), q, "/")
    <3>1. "/" \in Char \cup Param
      BY TokenAssumption
    <3> QED
      BY <1>2, <1>3, <2>3, <3>1, ReadsNext
  <2> HIDE DEF v
  <2>5. From(q, v.at) # <<>>
    BY <2>4 DEF NextRead, v
  <2>6. Reached(m, t, y, q, k + 1)
    BY <1>1, <2>1, <2>5 DEF ParamTurned, y
  <2> QED
    BY <2>1, <2>6 DEF Aims
<1> QED
  BY <1>4, <1>5, <1>6

\* And one whose way goes on to a "*name".
LEMMA AimCatchAll ==
  ASSUME NEW t, NEW T, RestsAt(node, t, T, routes), NEW q \in Seq(Char), NEW p, NEW x,
         Through(t, T, p, q, x), NEW w, CatchAllBelow(t, x, w), <<p, w>> \in T,
         NEW z, z = Reads(End(node, t, x), q), NEW rest, rest = From(q, z.at),
         NEW m, m = TakeRest(node[node[w].children[1]], rest, z.params)
  PROVE  rest # <<>> /\ m = Found(p, Reads(p, q).params)
<1> DEFINE E == End(node, t, x)
           y == node[w].children[1]
<1>1. Kids(node[w]) = {y} /\ node[w].data = NoData /\ Kids(node[y]) = {}
  BY DEF CatchAllBelow
<1>2. E \in Seq(Token) /\ z = Reads(E, q)
  BY DEF Through, StaticNode
<1>3. PICK c : CatchAllTurned(m, E, c, y, rest, z.params)
  BY TakesRest
<1> HIDE DEF E, y
<1>4. node[y].data = p
  <2>1. Passes(t, T, p, w)
    BY WayPasses
  <2>2. <<p, y>> \in T
    BY <1>1, <2>1 DEF Passes
  <2>3. Passes(t, T, p, y)
    BY <2>2, WayPasses
  <2> QED
    BY <1>1, <2>3 DEF Passes
<1>5. /\ c \in CatchAll /\ p = E \o <<"/", c>>
      /\ m = Found(p, Append(z.params, Capture(c, Tail(rest))))
  BY <1>3, <1>4 DEF CatchAllTurned
<1>6. Reads(p, q).ok /\ p \in Seq(Token)
  BY DEF Through, Passes
<1>7. /\ Len(E) \in Nat /\ Len(p) = Len(E) + 2 /\ IsPrefix(E, p) /\ SubSeq(p, 1, Len(E)) = E
      /\ p[Len(E) + 1] = "/" /\ p[Len(E) + 2] = c
  <2> DEFINE s == <<"/", c>>
  <2>1. s \in Seq(Token) /\ Len(s) = 2 /\ s[1] = "/" /\ s[2] = c
    BY <1>5, TokenAssumption DEF Token, Wildcard
  <2>2. p = E \o s
    BY <1>5
  <2> HIDE DEF s
  <2>3. /\ Len(E \o s) = Len(E) + Len(s) /\ IsPrefix(E, E \o s) /\ SubSeq(E \o s, 1, Len(E)) = E
        /\ \A i \in 1 .. Len(s) : (E \o s)[Len(E) + i] = s[i]
    <3>1. s \in Seq(Token)
      BY <2>1
    <3> QED
      BY <1>2, <3>1, ConcatFacts
  <2>4. 1 \in 1 .. Len(s) /\ 2 \in 1 .. Len(s)
    BY <2>1
  <2>5. p[Len(E) + 1] = "/" /\ p[Len(E) + 2] = c
    BY <2>1, <2>2, <2>3, <2>4
  <2> QED
    BY <1>2, <2>1, <2>2, <2>3, <2>5, LenProperties
<1>8. NextRead(z, q, "/")
  <2>1. "/" \in Char \cup Param /\ Len(E) < Len(p)
    BY <1>7, TokenAssumption
  <2> QED
    BY <1>2, <1>6, <1>7, <2>1, ReadsNext
<1>9. rest # <<>>
  BY <1>8 DEF NextRead
<1> DEFINE u == Reading(p, q)[Len(E) + 1]
<1>10. u = Read("/", q, z)
  <2>1. Reading(p, q)[Len(E)] = z
    BY <1>2, <1>6, <1>7, ReadsPrefix
  <2>2. u = Read(p[Len(E) + 1], q, Reading(p, q)[Len(E)])
    BY <1>7, ReadUnfolds
  <2> QED
    BY <1>7, <2>1, <2>2
<1>11. Reads(p, q) = Read(c, q, u)
  <2>1. Len(E) + 1 \in Nat /\ (Len(E) + 1) + 1 = Len(p)
    BY <1>7
  <2>2. Reading(p, q)[(Len(E) + 1) + 1] = Read(p[(Len(E) + 1) + 1], q, u)
    BY <2>1, ReadUnfolds
  <2>3. p[(Len(E) + 1) + 1] = c
    BY <1>7, <2>1
  <2> QED
    BY <2>1, <2>2, <2>3 DEF Reads
<1> HIDE DEF u
<1>12. z.at \in Nat /\ u.at = z.at + 1 /\ u.params = z.params
  <2>1. Fine(z, q)
    BY <1>2, ReadsFine
  <2>2. u.at = z.at + 1 /\ u.params = z.params
    BY <1>10, <2>1, ReadChar, TokenAssumption
  <2> QED
    BY <2>1, <2>2 DEF Fine
<1>13. Reads(p, q).params = Append(z.params, Capture(c, From(q, z.at + 1)))
  <2>1. Reads(p, q).params = Append(u.params, Capture(c, From(q, u.at)))
    BY <1>5, <1>11, ReadCatchAll
  <2> QED
    BY <1>12, <2>1
<1>14. Tail(rest) = From(q, z.at + 1)
  BY <1>9, <1>12, TailFrom
<1> QED
  BY <1>5, <1>9, <1>13, <1>14

\* A lookup that aims at a route goes on to.
LEMMA AimStep ==
  ASSUME NEW t, NEW T, RestsAt(node, t, T, routes), NEW q \in Path, NEW p \in routes,
         p \in Pattern, Matches(p, q), Preferred(p, q), NEW k \in Nat, NEW s, Aims(s, t, T, p, q, k)
  PROVE  Aims(LookTurn(s), t, T, p, q, k + 1)
<1> DEFINE m == LookTurn(s)
<1>1. Reads(p, q).ok /\ Reads(p, q).at = Len(q)
  BY DEF Matches, Reads
<1>2. CASE s = Found(p, Reads(p, q).params)
  <2>1. s.over
    BY <1>2 DEF Found
  <2>2. m = s
    BY <2>1 DEF LookTurn
  <2> QED
    BY <1>2, <2>2 DEF Aims
<1>3. ASSUME NEW x, Reached(s, t, x, q, k), <<p, x>> \in T PROVE Aims(m, t, T, p, q, k + 1)
  <2> DEFINE n == node[x]
             E == End(node, t, x)
             z == Reads(E, q)
             rest == From(q, z.at)
             w == n.wild[1]
  <2>1. q \in Seq(Char)
    BY PathAssumption
  <2>2. x \in DOMAIN node /\ Static(n)
    BY <1>3 DEF Reached
  <2>3. StaticNode(t, x) /\ Passes(t, T, p, x)
    BY <1>3, <2>2, StaticNodeFacts, WayPasses
  <2>4. Through(t, T, p, q, x)
    BY <1>1, <2>3 DEF Through
  <2>5. Turned(s, n, z, q) /\ Fine(z, q) /\ (n.path # <<>> => k + 1 <= z.at)
    BY <1>3, <2>1, <2>3, PathReached
  <2>6. /\ E \in Seq(Token) /\ IsPrefix(E, p) /\ p \in Seq(Token) /\ p # NoData
        /\ DataOK(node, t, routes, x) /\ n.wild \in Seq(DOMAIN node)
        /\ n.data = p \/ \E y \in Kids(n) : <<p, y>> \in T
        /\ Len(n.indices) = Len(n.children)
    BY <2>3 DEF Passes, StaticNode, NodeType
  <2>7. z.ok
    BY <1>1, <2>1, <2>6, ReadsOk
  <2> HIDE DEF E, z, rest, n, m
  <2>8. /\ rest = <<>> => IF n.data # NoData THEN m = Found(n.data, z.params) ELSE Missed(m)
        /\ rest # <<>> =>
             IF Contains(n.indices, rest[1])
               THEN m = Looking(n.children[Index(n.indices, rest[1])], rest, z.params)
             ELSE IF n.wild = <<>> THEN Missed(m)
             ELSE IF node[w].type = "param" THEN m = TakeSegment(node[w], rest, z.params)
             ELSE m = TakeRest(node[node[w].children[1]], rest, z.params)
    BY <2>5, <2>7 DEF Turned, m, rest
  <2>9. CASE n.data = p
    <3>1. z = Reads(p, q)
      <4>1. p = E
        BY <2>6, <2>9 DEF DataOK, n, E
      <4> QED
        BY <4>1 DEF z
    <3>2. rest = <<>>
      <4>1. Len(q) \in Nat
        BY <2>1, LenProperties
      <4>2. From(q, Len(q)) # <<>> <=> Len(q) < Len(q)
        BY <2>1, <4>1, FromFacts
      <4> QED
        BY <1>1, <3>1, <4>1, <4>2 DEF rest
    <3> QED
      BY <2>6, <2>8, <2>9, <3>1, <3>2 DEF Aims
  <2>10. ASSUME NEW i \in 1 .. Len(n.children), <<p, n.children[i]>> \in T
         PROVE  Aims(m, t, T, p, q, k + 1)
    <3> DEFINE y == n.children[i]
    <3>1. /\ rest # <<>> /\ Contains(n.indices, rest[1]) /\ Index(n.indices, rest[1]) = i
          /\ Reached(Looking(y, rest, z.params), t, y, q, k + 1)
      BY <2>1, <2>4, <2>5, <2>10, AimStatic DEF n, z, E, rest
    <3>2. m = Looking(y, rest, z.params)
      BY <2>8, <3>1
    <3> QED
      BY <2>10, <3>1, <3>2 DEF Aims
  <2>11. CASE n.wild # <<>> /\ <<p, w>> \in T
    <3>1. IF node[w].type = "param" THEN ParamBelow(t, x, w) ELSE CatchAllBelow(t, x, w)
      BY <2>2, <2>11, WildBelow DEF n
    <3>2. CASE node[w].type = "param"
      <4>1. ParamBelow(t, x, w)
        BY <3>1, <3>2
      <4>2. n.path # <<>>
        BY <4>1 DEF ParamBelow, n
      <4> HIDE DEF w
      <4>3. rest # <<>> /\ ~Contains(n.indices, rest[1])
        BY <2>1, <2>4, <2>11, <4>1, NoCharacter DEF rest, z, E, n
      <4>4. m = TakeSegment(node[w], rest, z.params)
        BY <2>8, <2>11, <3>2, <4>3
      <4> QED
        BY <2>1, <2>4, <2>5, <2>7, <2>11, <4>1, <4>2, <4>3, <4>4, AimParam DEF z, E, rest
    <3>3. CASE node[w].type # "param"
      <4>1. CatchAllBelow(t, x, w)
        BY <3>1, <3>3
      <4>2. n.children = <<>>
        BY <4>1 DEF CatchAllBelow, n
      <4>3. ~Contains(n.indices, rest[1])
        <5>1. Len(n.indices) = 0
          BY <2>6, <4>2, EmptySeq
        <5> QED
          BY <5>1 DEF Contains
      <4> DEFINE a == TakeRest(node[node[w].children[1]], rest, z.params)
      <4>4. rest # <<>> /\ a = Found(p, Reads(p, q).params)
        <5> HIDE DEF w
        <5> QED
          BY <2>1, <2>4, <2>11, <4>1, AimCatchAll DEF z, E, rest
      <4>5. m = a
        BY <2>8, <2>11, <3>3, <4>3, <4>4
      <4> QED
        BY <4>4, <4>5 DEF Aims
    <3> QED
      BY <3>2, <3>3
  <2>12. Kids(n) \subseteq {n.children[i] : i \in 1 .. Len(n.children)} \cup (IF n.wild = <<>> THEN {} ELSE {w})
    <3>1. CASE n.wild = <<>>
      <4>1. Len(n.wild) = 0
        BY <3>1, EmptySeq
      <4> QED
        BY <3>1, <4>1 DEF Kids
    <3>2. CASE n.wild # <<>>
      <4>1. Kids(n) = {n.children[i] : i \in 1 .. Len(n.children)} \cup {w}
        BY <2>2, <3>2, WildBelow DEF n
      <4> QED
        BY <3>2, <4>1
    <3> QED
      BY <3>1, <3>2
  <2>13. ASSUME NEW y \in Kids(n), <<p, y>> \in T PROVE Aims(m, t, T, p, q, k + 1)
    <3>1. CASE n.wild # <<>> /\ y = w
      BY <2>11, <2>13, <3>1
    <3>2. CASE \E i \in 1 .. Len(n.children) : y = n.children[i]
      BY <2>10, <2>13, <3>2
    <3> QED
      BY <2>12, <2>13, <3>1, <3>2
  <2> QED
    BY <2>6, <2>9, <2>13
<1> QED
  BY <1>2, <1>3 DEF Aims

\* The route preferred is the one found.
LEMMA LookupAims ==
  ASSUME NEW t, NEW T, RestsAt(node, t, T, routes), NEW q \in Path, NEW p \in routes,
         p \in Pattern, Matches(p, q), Preferred(p, q)
  PROVE  Lookup(q) = Found(p, Reads(p, q).params)
<1> DEFINE L == Look(q)
           S == {k \in Nat : Aims(L[k], t, T, p, q, k)}
<1>1. \A k \in Nat : L[k + 1] = LookTurn(L[k])
  BY LookUnfolds
<1>2. Reached(L[0], t, Root, q, 0)
  BY StartReached
<1>3. <<p, Root>> \in T
  BY DEF RestsAt, Ways
<1> HIDE DEF L
<1>4. 0 \in S
  BY <1>2, <1>3 DEF Aims
<1>5. ASSUME NEW k \in Nat, k \in S PROVE k + 1 \in S
  <2>1. Aims(L[k], t, T, p, q, k)
    BY <1>5
  <2>2. Aims(LookTurn(L[k]), t, T, p, q, k + 1)
    BY <2>1, AimStep
  <2> QED
    BY <1>1, <2>2
<1> DEFINE k == Len(q) + 1
<1> HIDE DEF S
<1>6. k \in Nat /\ Lookup(q) = L[k]
  <2>1. q \in Seq(Char) /\ Len(q) \in Nat
    BY PathAssumption, LenProperties
  <2> QED
    BY <2>1 DEF Lookup, L
<1>7. k \in S
  BY <1>4, <1>5, <1>6, SetInduction
<1>8. \A x : ~Reached(L[k], t, x, q, k)
  BY ReachedInTime
<1> HIDE DEF k
<1>9. Aims(L[k], t, T, p, q, k)
  BY <1>7 DEF S
<1> QED
  BY <1>6, <1>8, <1>9 DEF Aims

\* Another route agrees with p up to its i-th token, a ":name", and goes on there
\* with the character of the path.
Diverts(r, p, q, i) ==
  /\ p \in Seq(Token) /\ i \in 1 .. Len(p) /\ p[i] \in Param
  /\ r \in routes /\ r \in Seq(Token) /\ Len(r) >= i
  /\ SubSeq(r, 1, i - 1) = SubSeq(p, 1, i - 1)
  /\ r[i] = q[Reading(p, q)[i - 1].at + 1]

\* The text u has the first i tokens of p.
Takes(u, p, i) == i <= Len(u) /\ \A j \in 1 .. i : u[j] = p[j]

\* A route goes on from text a with token c.
GoesOn(a, r, c) == Len(a) < Len(r) /\ r[Len(a) + 1] = c /\ SubSeq(r, 1, Len(a)) = a

\* All routes that go on to node x have it on their way.
Alone(t, T, x) == \A r \in routes : GoesOn(t[x], r, IndexOf(node[x])) => <<r, x>> \in T

\* Characters are no ":name".
LEMMA TakesChars ==
  ASSUME NEW a \in Seq(Token), NEW b \in Seq(Char), NEW p, NEW i \in Nat \ {0}, p[i] \in Param,
         Takes(a \o b, p, i)
  PROVE  Takes(a, p, i)
<1>1. b \in Seq(Token) /\ Len(a) \in Nat /\ Len(b) \in Nat /\ \A j \in 1 .. Len(b) : b[j] \in Char
  <2>1. Char \subseteq Token
    BY DEF Token
  <2>2. b \in Seq(Token)
    BY <2>1, SeqMonotonic
  <2>3. \A j \in 1 .. Len(b) : b[j] \in Char
    BY ElementOfSeq
  <2> QED
    BY <2>2, <2>3, LenProperties
<1> DEFINE e == a \o b
<1>2. /\ Len(e) = Len(a) + Len(b) /\ \A j \in 1 .. Len(a) : e[j] = a[j]
      /\ \A j \in 1 .. Len(b) : e[Len(a) + j] = b[j]
  BY <1>1, ConcatFacts
<1>3. i <= Len(e) /\ \A j \in 1 .. i : e[j] = p[j]
  BY DEF Takes
<1> HIDE DEF e
<1>4. i <= Len(a)
  <2> SUFFICES ASSUME ~(i <= Len(a)) PROVE FALSE
    OBVIOUS
  <2> DEFINE j == i - Len(a)
  <2>1. j \in 1 .. Len(b) /\ Len(a) + j = i /\ i \in 1 .. i
    BY <1>1, <1>2, <1>3
  <2> HIDE DEF j
  <2>2. p[i] \in Char
    BY <1>1, <1>2, <1>3, <2>1
  <2> QED
    BY <2>2, TokenAssumption DEF Wildcard
<1> QED
  BY <1>1, <1>2, <1>3, <1>4 DEF Takes

\* A text that takes the ":name" with its last token has all that is before it.
LEMMA TakesToken ==
  ASSUME NEW a \in Seq(Token), NEW c \in Token, NEW p \in Seq(Token), NEW i \in 1 .. Len(p),
         Takes(a \o <<c>>, p, i), ~Takes(a, p, i)
  PROVE  i = Len(a) + 1 /\ c = p[i] /\ a = SubSeq(p, 1, i - 1)
<1> DEFINE s == <<c>>
           e == a \o s
<1>1. s \in Seq(Token) /\ Len(s) = 1 /\ s[1] = c
  OBVIOUS
<1> HIDE DEF s
<1>2. Len(a) \in Nat /\ Len(p) \in Nat
  BY LenProperties
<1>3. /\ Len(e) = Len(a) + Len(s) /\ \A j \in 1 .. Len(a) : e[j] = a[j]
      /\ \A j \in 1 .. Len(s) : e[Len(a) + j] = s[j]
  <2>1. s \in Seq(Token)
    BY <1>1
  <2> QED
    BY <2>1, ConcatFacts
<1>4. i <= Len(e) /\ \A j \in 1 .. i : e[j] = p[j]
  BY DEF Takes, s
<1> HIDE DEF e
<1>5. i = Len(a) + 1
  <2>1. ~(i <= Len(a))
    <3> SUFFICES ASSUME i <= Len(a) PROVE Takes(a, p, i)
      OBVIOUS
    <3> QED
      BY <1>2, <1>3, <1>4 DEF Takes
  <2> QED
    BY <1>1, <1>2, <1>3, <1>4, <2>1
<1>6. c = p[i]
  <2>1. 1 \in 1 .. Len(s) /\ i \in 1 .. i
    BY <1>1, <1>2, <1>5
  <2> QED
    BY <1>1, <1>3, <1>4, <1>5, <2>1
<1>7. a = SubSeq(p, 1, i - 1)
  <2>1. i - 1 = Len(a) /\ Len(a) \in 0 .. Len(p)
    BY <1>2, <1>5
  <2>2. /\ SubSeq(p, 1, Len(a)) \in Seq(Token) /\ Len(SubSeq(p, 1, Len(a))) = Len(a)
        /\ \A j \in 1 .. Len(a) : SubSeq(p, 1, Len(a))[j] = p[j]
    BY <2>1, SliceFacts
  <2>3. \A j \in 1 .. Len(a) : a[j] = p[j]
    BY <1>2, <1>3, <1>4, <1>5
  <2>4. a = SubSeq(p, 1, Len(a))
    BY <2>2, <2>3, SeqEqual
  <2> QED
    BY <2>1, <2>4
<1> QED
  BY <1>5, <1>6, <1>7

\* A "*name" is no ":name".
LEMMA TakesCatchAll ==
  ASSUME NEW a \in Seq(Token), NEW c \in CatchAll, NEW p, p = a \o <<"/", c>>,
         NEW i \in 1 .. Len(p), p[i] \in Param
  PROVE  Takes(a, p, i)
<1> DEFINE s == <<"/", c>>
<1>1. s \in Seq(Token) /\ Len(s) = 2 /\ s[1] = "/" /\ s[2] = c
  BY TokenAssumption DEF Token, Wildcard
<1>2. p = a \o s
  OBVIOUS
<1> HIDE DEF s
<1>3. /\ Len(p) = Len(a) + Len(s) /\ \A j \in 1 .. Len(a) : p[j] = a[j]
      /\ \A j \in 1 .. Len(s) : p[Len(a) + j] = s[j]
  <2>1. s \in Seq(Token)
    BY <1>1
  <2>2. /\ Len(a \o s) = Len(a) + Len(s) /\ \A j \in 1 .. Len(a) : (a \o s)[j] = a[j]
        /\ \A j \in 1 .. Len(s) : (a \o s)[Len(a) + j] = s[j]
    BY <2>1, ConcatFacts
  <2> QED
    BY <1>2, <2>2
<1>4. Len(a) \in Nat
  BY LenProperties
<1>5. p[Len(a) + 1] \notin Param /\ p[Len(a) + 2] \notin Param
  <2>1. 1 \in 1 .. Len(s) /\ 2 \in 1 .. Len(s)
    BY <1>1
  <2>2. p[Len(a) + 1] = "/" /\ p[Len(a) + 2] = c
    BY <1>1, <1>3, <2>1
  <2> QED
    BY <2>2, TokenAssumption DEF Wildcard
<1>6. i <= Len(a)
  <2>1. i # Len(a) + 1 /\ i # Len(a) + 2
    BY <1>5
  <2> QED
    BY <1>1, <1>3, <1>4, <2>1
<1> QED
  BY <1>3, <1>4, <1>6 DEF Takes

\* A text with a prefix goes on from it.
LEMMA GoesOnPrefix ==
  ASSUME NEW a \in Seq(Token), NEW b \in Seq(Token), b # <<>>, NEW r \in Seq(Token), NEW c,
         GoesOn(a \o b, r, c)
  PROVE  GoesOn(a, r, b[1])
<1> DEFINE e == a \o b
<1>1. e \in Seq(Token)
  BY TokenConcat
<1>2. IsPrefix(e, r)
  <2>1. Len(e) < Len(r) /\ SubSeq(r, 1, Len(e)) = e
    BY DEF GoesOn
  <2> HIDE DEF e
  <2>2. Len(e) <= Len(r) /\ SubSeq(e, 1, Len(e)) = e
    BY <1>1, <2>1, LenProperties, SubSeqFull
  <2> QED
    BY <2>1, <2>2 DEF IsPrefix
<1>3. Len(a) \in Nat /\ Len(a) < Len(r) /\ r[Len(a) + 1] = b[1] /\ SubSeq(r, 1, Len(a)) = a
  BY <1>2, PrefixNext
<1> QED
  BY <1>3 DEF GoesOn

\* Where a route that goes on from the end of node x with token c has its way.
Way(t, T, x, r, c) ==
  LET n == node[x]
      w == n.wild[1]
  IN
  \/ \E i \in 1 .. Len(n.children) : <<r, n.children[i]>> \in T /\ n.indices[i] = c /\ c \in Char
  \/ n.wild # <<>> /\ ParamBelow(t, x, w) /\ <<r, w>> \in T /\ node[w].path[1] = c
  \/ n.wild # <<>> /\ CatchAllBelow(t, x, w)

\* If all routes that go on to x have it on their way, one that goes on from its end
\* does so in the direction of its next token.
LEMMA OneWay ==
  ASSUME NEW t, NEW T, RestsAt(node, t, T, routes), NEW x \in DOMAIN node, Static(node[x]),
         Alone(t, T, x), node[x].path # <<>>, NEW r \in routes, r \in Seq(Token),
         NEW c, GoesOn(End(node, t, x), r, c)
  PROVE  Way(t, T, x, r, c)
<1> DEFINE n == node[x]
           E == End(node, t, x)
           w == n.wild[1]
<1>1. StaticNode(t, x)
  BY StaticNodeFacts
<1>2. /\ n \in NodeType(DOMAIN node) /\ n.path \in Seq(Char) /\ t[x] \in Seq(Token)
      /\ E \in Seq(Token) /\ DataOK(node, t, routes, x) /\ Len(n.indices) = Len(n.children)
      /\ \A i \in 1 .. Len(n.children) :
           LET y == n.children[i] IN
           /\ y \in DOMAIN node /\ t[y] = E /\ Static(node[y])
           /\ n.indices[i] = IndexOf(node[y])
  BY <1>1 DEF StaticNode
<1>3. n.path \in Seq(Token) /\ n.indices \in Seq(Char) /\ n.wild \in Seq(DOMAIN node)
  BY <1>2 DEF NodeType
<1>4. GoesOn(t[x], r, n.path[1])
  BY <1>2, <1>3, GoesOnPrefix DEF End
<1>5. <<r, x>> \in T
  BY <1>4 DEF Alone, IndexOf
<1>6. r # NoData /\ (n.data = r \/ \E y \in Kids(n) : <<r, y>> \in T)
  BY <1>5, WayPasses DEF Passes
<1>7. Len(E) < Len(r) /\ r[Len(E) + 1] = c
  BY DEF GoesOn
<1>8. Len(E) \in Nat
  BY <1>2, LenProperties
<1>9. n.data # r
  <2> SUFFICES ASSUME n.data = r PROVE FALSE
    OBVIOUS
  <2>1. r = E
    BY <1>2, <1>6 DEF DataOK
  <2> QED
    BY <1>7, <1>8, <2>1
<1>10. PICK y \in Kids(n) : <<r, y>> \in T
  BY <1>6, <1>9
<1>11. ASSUME NEW i \in 1 .. Len(n.children), y = n.children[i] PROVE Way(t, T, x, r, c)
  <2>1. t[y] = E /\ Static(node[y]) /\ n.indices[i] = IndexOf(node[y])
    BY <1>2, <1>11
  <2>2. StartsWith(t, y, r, IndexOf(node[y]))
    BY <1>10, <2>1, NextToken
  <2>3. n.indices[i] = c
    BY <1>7, <2>1, <2>2 DEF StartsWith
  <2>4. n.indices[i] \in Char
    <3>1. i \in 1 .. Len(n.indices)
      BY <1>2
    <3> QED
      BY <1>3, <3>1, ElementOfSeq
  <2> QED
    BY <1>10, <1>11, <2>3, <2>4 DEF Way
<1>12. ASSUME n.wild # <<>>, y = w PROVE Way(t, T, x, r, c)
  <2>1. IF node[w].type = "param" THEN ParamBelow(t, x, w) ELSE CatchAllBelow(t, x, w)
    BY <1>12, WildBelow
  <2>2. CASE ParamBelow(t, x, w)
    <3> DEFINE d == node[w].path[1]
               s == <<d>>
    <3>1. d \in Param /\ End(node, t, w) = E \o s
      BY <2>2 DEF ParamBelow
    <3>2. IsPrefix(E \o s, r)
      <4>1. Passes(t, T, r, w)
        BY <1>10, <1>12, WayPasses
      <4> QED
        BY <3>1, <4>1 DEF Passes
    <3>3. s \in Seq(Token) /\ s # <<>> /\ s[1] = d
      BY <3>1 DEF Token, Wildcard
    <3> HIDE DEF E, s, d
    <3>4. r[Len(E) + 1] = s[1]
      BY <1>2, <3>2, <3>3, PrefixNext
    <3>5. d = c
      BY <1>7, <3>3, <3>4 DEF E
    <3> QED
      BY <1>10, <1>12, <2>2, <3>5 DEF Way, d
  <2>3. CASE CatchAllBelow(t, x, w)
    BY <1>12, <2>3 DEF Way
  <2> QED
    BY <2>1, <2>2, <2>3
<1>13. \/ n.wild # <<>> /\ y = w
       \/ \E i \in 1 .. Len(n.children) : y = n.children[i]
  <2>1. CASE n.wild = <<>>
    <3>1. Len(n.wild) = 0
      BY <2>1, EmptySeq
    <3> QED
      BY <1>10, <3>1 DEF Kids
  <2>2. CASE n.wild # <<>>
    <3>1. Kids(n) = {n.children[i] : i \in 1 .. Len(n.children)} \cup {w}
      BY <2>2, WildBelow
    <3> QED
      BY <1>10, <2>2, <3>1
  <2> QED
    BY <2>1, <2>2
<1> QED
  BY <1>11, <1>12, <1>13

\* A static child of such a node is one, too.
LEMMA AloneStatic ==
  ASSUME routes \subseteq Pattern, NEW t, NEW T, RestsAt(node, t, T, routes), NEW x \in DOMAIN node,
         Static(node[x]), Alone(t, T, x), NEW j \in 1 .. Len(node[x].children)
  PROVE  Alone(t, T, node[x].children[j])
<1> DEFINE n == node[x]
           E == End(node, t, x)
           y == n.children[j]
<1>1. StaticNode(t, x)
  BY StaticNodeFacts
<1>2. /\ Len(n.children) \in Nat
      /\ \A a, b \in 1 .. Len(n.children) : n.indices[a] = n.indices[b] => a = b
      /\ n.children # <<>> => n.path # <<>>
      /\ t[y] = E /\ n.indices[j] = IndexOf(node[y])
      /\ n \in NodeType(DOMAIN node) /\ Len(n.indices) = Len(n.children)
  BY <1>1 DEF StaticNode
<1>3. n.children # <<>>
  <2>1. Len(n.children) # 0
    BY <1>2
  <2> QED
    BY <2>1, EmptySeq
<1>4. n.indices[j] \in Char
  <2>1. n.indices \in Seq(Char) /\ j \in 1 .. Len(n.indices)
    BY <1>2 DEF NodeType
  <2> QED
    BY <2>1, ElementOfSeq
<1> SUFFICES ASSUME NEW r \in routes, GoesOn(t[y], r, IndexOf(node[y])) PROVE <<r, y>> \in T
  BY DEF Alone
<1>5. r \in Seq(Token)
  BY PatternTokens
<1>6. GoesOn(E, r, n.indices[j])
  BY <1>2
<1> HIDE DEF E
<1>7. Way(t, T, x, r, n.indices[j])
  BY <1>2, <1>3, <1>5, <1>6, OneWay DEF E
<1>8. ASSUME NEW i \in 1 .. Len(n.children), <<r, n.children[i]>> \in T, n.indices[i] = n.indices[j]
      PROVE  <<r, y>> \in T
  <2>1. i = j
    BY <1>2, <1>8
  <2> QED
    BY <1>8, <2>1
<1>9. ASSUME ParamBelow(t, x, n.wild[1]), node[n.wild[1]].path[1] = n.indices[j] PROVE FALSE
  BY <1>4, <1>9, TokenAssumption DEF ParamBelow, Wildcard
<1>10. ASSUME CatchAllBelow(t, x, n.wild[1]) PROVE FALSE
  BY <1>3, <1>10 DEF CatchAllBelow
<1> QED
  BY <1>7, <1>8, <1>9, <1>10 DEF Way

\* And so is what goes on below its ":name".
LEMMA AloneParam ==
  ASSUME routes \subseteq Pattern, NEW t, NEW T, RestsAt(node, t, T, routes), NEW x \in DOMAIN node,
         Static(node[x]), Alone(t, T, x), NEW w, w = node[x].wild[1], ParamBelow(t, x, w),
         node[w].children # <<>>
  PROVE  Alone(t, T, node[w].children[1])
<1> DEFINE n == node[x]
           wc == node[w]
           E == End(node, t, x)
           F == End(node, t, w)
           c == wc.path[1]
           y == wc.children[1]
           s == <<c>>
<1>1. /\ n.path # <<>> /\ wc.path = s /\ c \in Param /\ F = E \o s /\ F \in Seq(Token)
      /\ DataOK(node, t, routes, w) /\ Kids(wc) = {y}
      /\ t[y] = F /\ IndexOf(node[y]) = "/"
  BY DEF ParamBelow
<1>2. E \in Seq(Token)
  BY StaticNodeFacts DEF StaticNode
<1>3. s \in Seq(Token) /\ s # <<>> /\ s[1] = c
  <2>1. c \in Param
    BY <1>1
  <2> HIDE DEF c
  <2>2. c \in Token
    BY <2>1 DEF Token, Wildcard
  <2> QED
    BY <2>2
<1> SUFFICES ASSUME NEW r \in routes, GoesOn(t[y], r, IndexOf(node[y])) PROVE <<r, y>> \in T
  BY DEF Alone
<1>4. r \in Seq(Token) /\ r # NoData
  BY PatternTokens DEF NoData
<1>5. GoesOn(E \o s, r, "/")
  BY <1>1
<1> HIDE DEF E, F, s
<1>6. GoesOn(E, r, s[1])
  BY <1>2, <1>3, <1>4, <1>5, GoesOnPrefix
<1>7. GoesOn(E, r, c)
  BY <1>3, <1>6
<1> HIDE DEF c
<1>8. Way(t, T, x, r, c)
  BY <1>1, <1>4, <1>7, OneWay DEF E
<1>9. c \notin Char
  BY <1>1, TokenAssumption DEF Wildcard
<1>10. ~CatchAllBelow(t, x, w)
  <2>1. wc.path # <<>>
    BY <1>1, <1>3
  <2> QED
    BY <2>1 DEF CatchAllBelow
<1>11. <<r, w>> \in T
  BY <1>8, <1>9, <1>10 DEF Way
<1>12. wc.data = r \/ \E u \in Kids(wc) : <<r, u>> \in T
  BY <1>11, WayPasses DEF Passes
<1>13. wc.data # r
  <2> SUFFICES ASSUME wc.data = r PROVE FALSE
    OBVIOUS
  <2>1. r = F
    BY <1>1, <1>4 DEF DataOK, F
  <2>2. Len(F) < Len(r) /\ Len(F) \in Nat
    BY <1>1, <1>5, LenProperties DEF GoesOn
  <2> QED
    BY <2>1, <2>2
<1> QED
  BY <1>1, <1>12, <1>13

\* Where another route is preferred to p, node x has its character among its indices.
LEMMA CharacterThere ==
  ASSUME NEW t, NEW T, RestsAt(node, t, T, routes), NEW q \in Seq(Char), NEW x \in DOMAIN node,
         Static(node[x]), Alone(t, T, x), node[x].path # <<>>, NEW p, NEW r, NEW i,
         Diverts(r, p, q, i), End(node, t, x) = SubSeq(p, 1, i - 1), i = Len(End(node, t, x)) + 1,
         NEW rest, rest = From(q, Reads(End(node, t, x), q).at), rest # <<>>,
         NEW w, w = node[x].wild[1], ParamBelow(t, x, w)
  PROVE  Contains(node[x].indices, rest[1])
<1> DEFINE n == node[x]
           E == End(node, t, x)
           z == Reads(E, q)
           c == rest[1]
<1>1. /\ p \in Seq(Token) /\ i \in 1 .. Len(p) /\ r \in routes /\ r \in Seq(Token) /\ Len(r) >= i
      /\ SubSeq(r, 1, i - 1) = E /\ r[i] = q[Reading(p, q)[i - 1].at + 1] /\ i - 1 = Len(E)
  <2>1. E \in Seq(Token)
    BY StaticNodeFacts DEF StaticNode
  <2>2. Len(E) \in Nat
    BY <2>1, LenProperties
  <2>3. i - 1 = Len(E) /\ E = SubSeq(p, 1, i - 1)
    <3> HIDE DEF E
    <3> QED
      BY <2>2 DEF E
  <2> QED
    BY <2>3 DEF Diverts
<1>2. E \in Seq(Token) /\ Len(n.indices) = Len(n.children)
  BY StaticNodeFacts DEF StaticNode
<1> HIDE DEF E
<1>3. Reading(p, q)[i - 1] = z
  <2>1. IsPrefix(E, p)
    <3>1. SubSeq(p, 1, Len(E)) = E /\ Len(E) <= Len(p)
      BY <1>1, <1>2, LenProperties DEF E
    <3> QED
      BY <1>2, <3>1, SubSeqFull DEF IsPrefix
  <2>2. Reading(p, q)[Len(E)] = z
    BY <1>1, <1>2, <2>1, ReadsPrefix
  <2> QED
    BY <1>1, <2>2
<1>4. q[z.at + 1] = c /\ c \in Char
  <2>1. Fine(z, q)
    BY <1>2, ReadsFine
  <2>2. rest = From(q, z.at)
    BY DEF E
  <2> HIDE DEF z
  <2>3. z.at \in Nat /\ Len(q) \in Nat
    BY <2>1, LenProperties DEF Fine
  <2>4. /\ From(q, z.at) # <<>> <=> z.at < Len(q)
        /\ \A j \in 1 .. Len(q) - z.at : From(q, z.at)[j] = q[z.at + j]
    BY <2>3, FromFacts
  <2>5. z.at < Len(q)
    BY <2>2, <2>4
  <2>6. 1 \in 1 .. Len(q) - z.at /\ z.at + 1 \in 1 .. Len(q)
    BY <2>3, <2>5
  <2>7. q[z.at + 1] \in Char
    BY <2>6, ElementOfSeq
  <2> QED
    BY <2>2, <2>4, <2>6, <2>7
<1>5. GoesOn(E, r, c)
  <2>1. Len(E) < Len(r)
    BY <1>1, <1>2, LenProperties
  <2>2. r[Len(E) + 1] = c
    BY <1>1, <1>3, <1>4
  <2>3. SubSeq(r, 1, Len(E)) = E
    BY <1>1
  <2> QED
    BY <2>1, <2>2, <2>3 DEF GoesOn
<1> HIDE DEF c
<1>6. Way(t, T, x, r, c)
  BY <1>1, <1>5, OneWay DEF E
<1>7. ASSUME NEW j \in 1 .. Len(n.children), n.indices[j] = c PROVE Contains(n.indices, c)
  BY <1>2, <1>7 DEF Contains
<1>8. node[w].path[1] # c
  BY <1>4, TokenAssumption DEF ParamBelow, Wildcard
<1>9. ~CatchAllBelow(t, x, w)
  <2> DEFINE d == node[w].path[1]
  <2>1. node[w].path = <<d>>
    BY DEF ParamBelow
  <2>2. node[w].path # <<>>
    <3> HIDE DEF d
    <3> QED
      BY <2>1
  <2> QED
    BY <2>2 DEF CatchAllBelow
<1>10. PICK j \in 1 .. Len(n.children) : n.indices[j] = c
  BY <1>6, <1>8, <1>9 DEF Way
<1> QED
  BY <1>7, <1>10 DEF c

\* A lookup that finds another route or none, or is on its way where no text takes the
\* ":name" that another route is preferred to.
Strays(s, t, T, p, i, q, k) ==
  \/ Missed(s)
  \/ \E d, params : s = Found(d, params) /\ d # p
  \/ \E x : Reached(s, t, x, q, k) /\ Alone(t, T, x) /\ ~Takes(t[x], p, i)

\* A turn keeps it there.
LEMMA StrayStep ==
  ASSUME routes \subseteq Pattern, NEW t, NEW T, RestsAt(node, t, T, routes), NEW q \in Path,
         NEW k \in Nat, NEW p, NEW r, NEW i, Diverts(r, p, q, i), NEW s, Strays(s, t, T, p, i, q, k)
  PROVE  Strays(LookTurn(s), t, T, p, i, q, k + 1)
<1> DEFINE m == LookTurn(s)
<1>0. p \in Seq(Token) /\ i \in 1 .. Len(p) /\ p[i] \in Param /\ Len(p) \in Nat /\ i \in Nat \ {0}
  <2>1. p \in Seq(Token) /\ i \in 1 .. Len(p) /\ p[i] \in Param
    BY DEF Diverts
  <2> QED
    BY <2>1, LenProperties
<1>1. CASE Missed(s)
  <2>1. s.over
    BY <1>1 DEF Missed, Missing
  <2>2. m = s
    BY <2>1 DEF LookTurn
  <2> QED
    BY <1>1, <2>2 DEF Strays
<1>2. CASE \E d, params : s = Found(d, params) /\ d # p
  <2>1. s.over
    BY <1>2 DEF Found
  <2>2. m = s
    BY <2>1 DEF LookTurn
  <2>3. \E d, params : m = Found(d, params) /\ d # p
    BY <1>2, <2>2
  <2> HIDE DEF m
  <2>4. Strays(m, t, T, p, i, q, k + 1)
    BY <2>3 DEF Strays
  <2> QED
    BY <2>4 DEF m
<1>3. ASSUME NEW x, Reached(s, t, x, q, k), Alone(t, T, x), ~Takes(t[x], p, i)
      PROVE  Strays(m, t, T, p, i, q, k + 1)
  <2> DEFINE n == node[x]
             E == End(node, t, x)
             z == Reads(E, q)
             rest == From(q, z.at)
             w == n.wild[1]
             j == Index(n.indices, rest[1])
  <2>1. q \in Seq(Char)
    BY PathAssumption
  <2>2. x \in DOMAIN node /\ Static(n)
    BY <1>3 DEF Reached
  <2>3. StaticNode(t, x)
    BY <2>2, StaticNodeFacts
  <2>4. Turned(s, n, z, q) /\ Fine(z, q) /\ (n.path # <<>> => k + 1 <= z.at)
    BY <1>3, <2>1, <2>3, PathReached
  <2>5. E \in Seq(Token) /\ DataOK(node, t, routes, x)
    BY <2>3 DEF StaticNode
  <2>6. ~Takes(E, p, i)
    <3>1. t[x] \in Seq(Token) /\ n.path \in Seq(Char)
      BY <2>3 DEF StaticNode
    <3> SUFFICES ASSUME Takes(t[x] \o n.path, p, i) PROVE FALSE
      BY DEF End
    <3> DEFINE a == t[x]
               b == n.path
    <3>2. ~Takes(a, p, i) /\ Takes(a \o b, p, i) /\ a \in Seq(Token) /\ b \in Seq(Char)
      BY <1>3, <3>1
    <3> HIDE DEF a, b
    <3> QED
      BY <1>0, <3>2, TakesChars
  <2>7. Takes(p, p, i)
    BY <1>0 DEF Takes
  <2> HIDE DEF E, z, rest, n, m
  <2>8. /\ ~z.ok => Missed(m)
        /\ z.ok /\ rest = <<>> =>
             z.at = Len(q) /\ IF n.data # NoData THEN m = Found(n.data, z.params) ELSE Missed(m)
        /\ z.ok /\ rest # <<>> =>
             IF Contains(n.indices, rest[1]) THEN m = Looking(n.children[j], rest, z.params)
             ELSE IF n.wild = <<>> THEN Missed(m)
             ELSE IF node[w].type = "param" THEN m = TakeSegment(node[w], rest, z.params)
             ELSE m = TakeRest(node[node[w].children[1]], rest, z.params)
    BY <2>4 DEF Turned, m, rest
  <2>9. CASE Missed(m)
    BY <2>9 DEF Strays
  <2>10. CASE z.ok /\ rest = <<>> /\ n.data # NoData
    <3>1. m = Found(n.data, z.params)
      BY <2>8, <2>10
    <3>2. n.data = E
      BY <2>5, <2>10 DEF DataOK, n, E
    <3>3. n.data # p
      BY <2>6, <2>7, <3>2
    <3> QED
      BY <3>1, <3>3 DEF Strays
  <2>11. CASE z.ok /\ rest # <<>> /\ Contains(n.indices, rest[1])
    <3>1. m = Looking(n.children[j], rest, z.params)
      BY <2>8, <2>11
    <3>2. /\ n \in NodeType(DOMAIN node) /\ Len(n.indices) = Len(n.children)
          /\ n.children # <<>> => n.path # <<>>
          /\ \A a \in 1 .. Len(n.children) :
               n.children[a] \in DOMAIN node /\ t[n.children[a]] = E /\ Static(node[n.children[a]])
      BY <2>3 DEF StaticNode, n, E
    <3>3. n.indices \in Seq(Char) /\ n.children \in Seq(DOMAIN node)
      BY <3>2 DEF NodeType
    <3>4. j \in 1 .. Len(n.children)
      <4>1. PICK a \in 1 .. Len(n.indices) : n.indices[a] = rest[1]
        BY <2>11 DEF Contains
      <4>2. j \in 0 .. Len(n.indices) /\ j > 0
        BY <3>3, <4>1, IndexFacts
      <4> HIDE DEF j
      <4> QED
        BY <3>2, <3>3, <4>2, LenProperties
    <3>5. n.path # <<>>
      <4>1. n.children # <<>>
        BY <3>3, <3>4, EmptySeq
      <4> QED
        BY <3>2, <4>1
    <3>6. \A a \in 1 .. Len(n.children) : Alone(t, T, n.children[a])
      BY <1>3, <2>2, AloneStatic DEF n
    <3> DEFINE y == n.children[j]
    <3>7. y \in DOMAIN node /\ Static(node[y]) /\ t[y] = E /\ Alone(t, T, y)
      BY <3>2, <3>4, <3>6
    <3> HIDE DEF y
    <3>8. m = Looking(y, From(q, z.at), z.params)
      BY <3>1 DEF y, rest
    <3>9. Reads(t[y], q) = z
      BY <3>7 DEF z
    <3>10. Reached(m, t, y, q, k + 1)
      BY <2>4, <2>11, <3>5, <3>7, <3>8, <3>9 DEF Reached
    <3>11. ~Takes(t[y], p, i)
      BY <2>6, <3>7
    <3> QED
      BY <3>7, <3>10, <3>11 DEF Strays
  <2>12. CASE /\ z.ok /\ rest # <<>> /\ ~Contains(n.indices, rest[1]) /\ n.wild # <<>>
              /\ node[w].type = "param"
    <3>1. m = TakeSegment(node[w], rest, z.params)
      BY <2>8, <2>12
    <3>2. ParamBelow(t, x, w)
      BY <2>2, <2>12, WildBelow DEF n
    <3>3. n.path # <<>> /\ k + 1 <= z.at
      BY <2>4, <3>2 DEF ParamBelow, n
    <3> DEFINE F == End(node, t, w)
               v == Reads(F, q)
               c == node[w].path[1]
               s1 == <<c>>
    <3>4. F = E \o s1 /\ c \in Token /\ DataOK(node, t, routes, w)
      BY <3>2 DEF ParamBelow, E, Token, Wildcard
    <3>5. w = node[x].wild[1]
      BY DEF n
    <3> HIDE DEF w, F, v, c
    <3>6. ~Takes(F, p, i)
      <4> SUFFICES ASSUME Takes(F, p, i) PROVE FALSE
        OBVIOUS
      <4>1. Takes(E \o <<c>>, p, i)
        BY <3>4
      <4>2. i = Len(E) + 1 /\ E = SubSeq(p, 1, i - 1)
        BY <1>0, <2>5, <2>6, <3>4, <4>1, TakesToken
      <4>3. Contains(node[x].indices, rest[1])
        BY <1>3, <2>1, <2>2, <2>12, <3>2, <3>3, <3>5, <4>2, CharacterThere DEF n, E, rest, z
      <4> QED
        BY <2>12, <4>3 DEF n
    <3>7. ParamTurned(m, t, w, q, k, v)
      BY <2>1, <2>3, <2>12, <3>1, <3>2, <3>3, TakesSegment DEF z, E, rest, v, F
    <3>8. CASE Missed(m)
      BY <3>8 DEF Strays
    <3>9. CASE node[w].children # <<>> /\ Reached(m, t, node[w].children[1], q, k + 1)
      <4> DEFINE y == node[w].children[1]
      <4>1. t[y] = F
        BY <3>2, <3>9 DEF ParamBelow, F
      <4>2. Alone(t, T, y)
        BY <1>3, <2>2, <3>2, <3>5, <3>9, AloneParam DEF n
      <4> HIDE DEF y
      <4>3. Reached(m, t, y, q, k + 1) /\ ~Takes(t[y], p, i)
        BY <3>6, <3>9, <4>1 DEF y
      <4> QED
        BY <4>2, <4>3 DEF Strays
    <3>10. CASE node[w].data # NoData /\ m = Found(node[w].data, v.params)
      <4>1. node[w].data = F
        BY <3>4, <3>10 DEF DataOK, F
      <4>2. node[w].data # p
        BY <2>7, <3>6, <4>1
      <4> QED
        BY <3>10, <4>2 DEF Strays
    <3> QED
      BY <3>7, <3>8, <3>9, <3>10 DEF ParamTurned
  <2>13. CASE /\ z.ok /\ rest # <<>> /\ ~Contains(n.indices, rest[1]) /\ n.wild # <<>>
              /\ node[w].type # "param"
    <3> DEFINE y == node[w].children[1]
    <3>1. m = TakeRest(node[y], rest, z.params)
      BY <2>8, <2>13
    <3>2. CatchAllBelow(t, x, w)
      BY <2>2, <2>13, WildBelow DEF n
    <3> HIDE DEF w
    <3>3. y = node[w].children[1]
      OBVIOUS
    <3> HIDE DEF y
    <3>4. PICK c : CatchAllTurned(m, E, c, y, rest, z.params)
      BY <3>1, <3>2, <3>3, TakesRest DEF E
    <3>5. /\ c \in CatchAll /\ node[y].data = E \o <<"/", c>>
          /\ m = Found(node[y].data, Append(z.params, Capture(c, Tail(rest))))
      BY <3>4 DEF CatchAllTurned
    <3>6. node[y].data # p
      <4> SUFFICES ASSUME p = E \o <<"/", c>> PROVE FALSE
        BY <3>5
      <4> QED
        BY <1>0, <2>5, <2>6, <3>5, TakesCatchAll
    <3> QED
      BY <3>5, <3>6 DEF Strays
  <2> QED
    BY <2>8, <2>9, <2>10, <2>11, <2>12, <2>13
<1> QED
  BY <1>1, <1>2, <1>3 DEF Strays

\* A route that another one is preferred to is not found.
LEMMA LookupStrays ==
  ASSUME routes \subseteq Pattern, NEW t, NEW T, RestsAt(node, t, T, routes), NEW q \in Path,
         NEW p, NEW r, NEW i, Diverts(r, p, q, i)
  PROVE  Missed(Lookup(q)) \/ \E d, params : Lookup(q) = Found(d, params) /\ d # p
<1> DEFINE L == Look(q)
           S == {k \in Nat : Strays(L[k], t, T, p, i, q, k)}
<1>1. \A k \in Nat : L[k + 1] = LookTurn(L[k])
  BY LookUnfolds
<1>2. Reached(L[0], t, Root, q, 0)
  BY StartReached
<1>3. Alone(t, T, Root)
  BY DEF Alone, RestsAt, Ways
<1>4. ~Takes(t[Root], p, i)
  <2>1. t[Root] = <<>> /\ i \in Nat \ {0}
    <3>1. i \in 1 .. Len(p)
      BY DEF Diverts
    <3> QED
      BY <3>1 DEF RestsAt, Tree
  <2>2. Len(<<>>) = 0
    BY EmptySeq
  <2> QED
    BY <2>1, <2>2 DEF Takes
<1> HIDE DEF L
<1>5. 0 \in S
  BY <1>2, <1>3, <1>4 DEF Strays
<1>6. ASSUME NEW k \in Nat, k \in S PROVE k + 1 \in S
  <2>1. Strays(L[k], t, T, p, i, q, k)
    BY <1>6
  <2>2. Strays(LookTurn(L[k]), t, T, p, i, q, k + 1)
    BY <2>1, StrayStep
  <2> QED
    BY <1>1, <2>2
<1> DEFINE k == Len(q) + 1
<1> HIDE DEF S
<1>7. k \in Nat /\ Lookup(q) = L[k]
  <2>1. q \in Seq(Char) /\ Len(q) \in Nat
    BY PathAssumption, LenProperties
  <2> QED
    BY <2>1 DEF Lookup, L
<1>8. k \in S
  BY <1>5, <1>6, <1>7, SetInduction
<1>9. \A x : ~Reached(L[k], t, x, q, k)
  BY ReachedInTime
<1> HIDE DEF k
<1>10. Strays(L[k], t, T, p, i, q, k)
  BY <1>8 DEF S
<1> QED
  BY <1>7, <1>9, <1>10 DEF Strays

\* The invariant makes every lookup find the route preferred, and no other.
LEMMA InvRoutesFound == Inv => RoutesFound
<1> SUFFICES ASSUME Inv, call.loop = "idle", NEW p \in routes, NEW q \in Served[p]
             PROVE  Preferred(p, q) <=> Lookup(q) = Found(p, Reads(p, q).params)
  BY DEF RoutesFound, Reads
<1>1. routes \subseteq Pattern /\ p \in Pattern
  BY DEF Inv
<1>2. PICK t, T : RestsAt(node, t, T, routes)
  BY DEF Inv
<1>3. q \in Path /\ Matches(p, q)
  <2>1. Served[p] = {r \in Path : Matches(p, r)}
    BY <1>1 DEF Served
  <2> QED
    BY <2>1
<1>4. CASE Preferred(p, q)
  BY <1>1, <1>2, <1>3, <1>4, LookupAims
<1>5. CASE ~Preferred(p, q)
  <2>1. PICK i \in 1 .. Len(p), r \in routes :
          /\ p[i] \in Param /\ Len(r) >= i /\ SubSeq(r, 1, i - 1) = SubSeq(p, 1, i - 1)
          /\ r[i] = q[Reading(p, q)[i - 1].at + 1]
    BY <1>5 DEF Preferred
  <2>2. p \in Seq(Token) /\ r \in Seq(Token) /\ p # NoData
    BY <1>1, PatternTokens DEF NoData
  <2>3. Diverts(r, p, q, i)
    BY <2>1, <2>2 DEF Diverts
  <2>4. Missed(Lookup(q)) \/ \E d, params : Lookup(q) = Found(d, params) /\ d # p
    BY <1>1, <1>2, <1>3, <2>3, LookupStrays
  <2> DEFINE m == Lookup(q)
             e == Reads(p, q).params
  <2> HIDE DEF m, e
  <2> SUFFICES ASSUME m = Found(p, e) PROVE FALSE
    BY <1>5 DEF m, e
  <2>5. m.data = p
    BY DEF Found
  <2>6. ~Missed(m)
    BY <2>2, <2>5 DEF Missed, Missing
  <2>7. \A d, params : m = Found(d, params) => d = p
    BY <2>5 DEF Found
  <2> QED
    BY <2>4, <2>6, <2>7 DEF m
<1> QED
  BY <1>4, <1>5

\* However the routes are registered, which route is found for a path that it matches
\* depends on the set of patterns alone: it is the one that no other is preferred to, a
\* character being preferred over a ":name" where they part, with the parameters that its
\* pattern gives (getValue in tree.go).
THEOREM PreferredFound == Spec => []RoutesFound
<1>1. Init => Inv
  BY InitRests
<1>2. Inv /\ [Next]_vars => Inv'
  BY NextInv
<1>3. Inv => RoutesFound
  BY InvRoutesFound
<1> QED
  BY <1>1, <1>2, <1>3, PTL DEF Spec

-----------------------------------------------------------------------------
(* No path redirects to one that redirects                                 *)

\* A lookup that recommends nothing.
Ended(s) == s.over /\ ~s.tsr

\* A lookup that will find the handler of a node "/".
Almost(s) ==
  \E y, params :
    /\ y \in DOMAIN node
    /\ node[y].path = <<"/">> /\ node[y].data # NoData
    /\ s = Looking(y, <<"/">>, params)

\* Of a lookup and one of a path with one more slash, not both recommend a redirect.
Settled(a, b) == Ended(a) \/ Ended(b) \/ Almost(b)

\* The two are at the same node x, where s is left of the shorter path, after k of at most l
\* turns.
Beside(a, b, x, s, k, l) ==
  /\ x \in DOMAIN node /\ Static(node[x])
  /\ s \in Seq(Char) /\ s # <<>> /\ Last(s) # "/" /\ Len(s) + k <= l
  /\ \E u, v : a = Looking(x, s, u) /\ b = Looking(x, Append(s, "/"), v)

\* A lookup that has found a handler, or recommends nothing, has ended.
LEMMA EndedFacts ==
  /\ \A data, params : Ended(Found(data, params))
  /\ Ended(Missing(FALSE))
  /\ \A s : Ended(s) => LookTurn(s) = s
<1>1. \A data, params : Ended(Found(data, params))
  BY DEF Ended, Found
<1>2. Ended(Missing(FALSE))
  BY DEF Ended, Missing
<1>3. \A s : Ended(s) => LookTurn(s) = s
  BY DEF Ended, LookTurn
<1> QED
  BY <1>1, <1>2, <1>3

\* A lookup whose path ends at a node with a handler finds it.
LEMMA TurnEnd ==
  ASSUME NEW y, node[y].path \in Seq(Token), node[y].data # NoData, NEW params,
         NEW s, s = Looking(y, node[y].path, params)
  PROVE  Ended(LookTurn(s))
<1> DEFINE n == node[y]
<1>1. ~s.over /\ s.n = y /\ s.path = n.path /\ s.params = params
  BY DEF Looking
<1>2. ~(Len(n.path) > Len(n.path))
  BY LenProperties
<1>3. LookTurn(s) = AtNode(n, n.path, params)
  BY <1>1, <1>2 DEF LookTurn
<1>4. AtNode(n, n.path, params) = Found(n.data, params)
  BY DEF AtNode
<1> QED
  BY <1>3, <1>4, EndedFacts

\* What is settled stays so.
LEMMA SettledStep ==
  ASSUME NEW t, NEW T, RestsAt(node, t, T, routes), NEW a, NEW b, Settled(a, b)
  PROVE  Settled(LookTurn(a), LookTurn(b))
<1>1. CASE Ended(a) \/ Ended(b)
  BY <1>1, EndedFacts DEF Settled
<1>2. CASE Almost(b)
  <2>1. PICK y, params :
          /\ y \in DOMAIN node
          /\ node[y].path = <<"/">> /\ node[y].data # NoData
          /\ b = Looking(y, <<"/">>, params)
    BY <1>2 DEF Almost
  <2>2. node[y].path \in Seq(Token)
    BY <2>1, TokenAssumption DEF Token
  <2>3. b = Looking(y, node[y].path, params)
    BY <2>1
  <2> QED
    BY <2>1, <2>2, <2>3, TurnEnd DEF Settled
<1> QED
  BY <1>1, <1>2 DEF Settled

\* The rest r of path s after k characters, and that of the path with one more slash.
RestBeside(s, k, r) ==
  /\ r \in Seq(Char) /\ r # <<>> /\ Last(r) # "/" /\ Len(r) = Len(s) - k
  /\ From(Append(s, "/"), k) = Append(r, "/") /\ Append(r, "/")[1] = r[1]

\* The rests of the two paths beside each other.
LEMMA RestFacts ==
  ASSUME NEW s \in Seq(Char), Last(s) # "/", NEW k \in Nat, k < Len(s), NEW r, r = From(s, k)
  PROVE  RestBeside(s, k, r)
<1> DEFINE l == Append(s, "/")
           a == From(l, k)
           b == Append(r, "/")
<1>1. "/" \in Char /\ Len(s) \in Nat
  BY TokenAssumption, LenProperties
<1>2. /\ l \in Seq(Char) /\ Len(l) = Len(s) + 1 /\ l[Len(s) + 1] = "/"
      /\ \A i \in 1 .. Len(s) : l[i] = s[i]
  BY <1>1, AppendProperties
<1>3. /\ r \in Seq(Char) /\ Len(r) = Len(s) - k
      /\ \A i \in 1 .. Len(s) - k : r[i] = s[k + i]
      /\ r # <<>>
  <2>1. /\ From(s, k) \in Seq(Char) /\ Len(From(s, k)) = IF k <= Len(s) THEN Len(s) - k ELSE 0
        /\ \A i \in 1 .. Len(s) - k : From(s, k)[i] = s[k + i]
        /\ From(s, k) # <<>> <=> k < Len(s)
    BY FromFacts
  <2>2. Len(From(s, k)) = Len(s) - k
    BY <1>1, <2>1
  <2> QED
    BY <2>1, <2>2
<1> HIDE DEF l
<1>4. /\ b \in Seq(Char) /\ Len(b) = Len(r) + 1 /\ b[Len(r) + 1] = "/"
      /\ \A i \in 1 .. Len(r) : b[i] = r[i]
  <2>1. r \in Seq(Char) /\ "/" \in Char
    BY <1>1, <1>3
  <2> QED
    BY <2>1, AppendProperties
<1>5. k <= Len(l)
  BY <1>1, <1>2
<1>6. /\ a \in Seq(Char) /\ Len(a) = Len(l) - k
      /\ \A i \in 1 .. Len(l) - k : a[i] = l[k + i]
  BY <1>2, <1>5, FromFacts
<1>7. Last(r) # "/"
  <2>1. Len(r) \in 1 .. Len(s) - k /\ k + Len(r) = Len(s)
    BY <1>1, <1>3
  <2>2. r[Len(r)] = s[k + Len(r)]
    BY <1>3, <2>1
  <2> QED
    BY <2>1, <2>2 DEF Last
<1> HIDE DEF a, b
<1>8. Len(a) = Len(b)
  <2>1. Len(a) = Len(l) - k /\ Len(l) = Len(s) + 1
    BY <1>2, <1>6
  <2>2. Len(b) = Len(r) + 1 /\ Len(r) = Len(s) - k
    BY <1>3, <1>4
  <2> QED
    BY <1>1, <2>1, <2>2
<1>9. ASSUME NEW i \in 1 .. Len(a) PROVE a[i] = b[i]
  <2>1. i \in 1 .. Len(l) - k /\ Len(r) = Len(s) - k /\ Len(a) = Len(r) + 1
    BY <1>3, <1>4, <1>6, <1>8
  <2>2. a[i] = l[k + i]
    BY <1>6, <2>1
  <2>3. CASE i = Len(r) + 1
    <3>1. k + i = Len(s) + 1
      BY <1>1, <2>1, <2>3
    <3> QED
      BY <1>2, <1>4, <2>2, <2>3, <3>1
  <2>4. CASE i # Len(r) + 1
    <3>1. i \in 1 .. Len(r) /\ i \in 1 .. Len(s) - k /\ k + i \in 1 .. Len(s)
      BY <1>1, <2>1, <2>4
    <3>2. l[k + i] = s[k + i] /\ r[i] = s[k + i] /\ b[i] = r[i]
      BY <1>2, <1>3, <1>4, <3>1
    <3> QED
      BY <2>2, <3>2
  <2> QED
    BY <2>3, <2>4
<1>10. a = b
  BY <1>4, <1>6, <1>8, <1>9, SeqEqual
<1>11. b[1] = r[1]
  <2>1. 1 \in 1 .. Len(r)
    BY <1>1, <1>3
  <2> QED
    BY <1>4, <2>1
<1> QED
  BY <1>3, <1>7, <1>10, <1>11 DEF RestBeside, a, b, l

\* The first segment is the same with one more slash.
LEMMA SegmentBeside ==
  ASSUME NEW r \in Seq(Char), Last(r) # "/", r # <<>>
  PROVE  LET end == SegmentLength(r) IN
         /\ SegmentLength(Append(r, "/")) = end /\ end \in 0 .. Len(r)
         /\ Len(r) # end + 1
<1> DEFINE l == Append(r, "/")
           i == Index(r, "/")
           j == Index(l, "/")
<1>1. "/" \in Char /\ Len(r) \in Nat
  BY TokenAssumption, LenProperties
<1>2. /\ l \in Seq(Char) /\ Len(l) = Len(r) + 1 /\ l[Len(r) + 1] = "/"
      /\ \A m \in 1 .. Len(r) : l[m] = r[m]
  BY <1>1, AppendProperties
<1> HIDE DEF l
<1>3. /\ i \in 0 .. Len(r) /\ (i > 0 => r[i] = "/")
      /\ \A m \in 1 .. Len(r) : r[m] = "/" => i > 0 /\ i <= m
  BY IndexFacts
<1>4. /\ j \in 0 .. Len(l) /\ (j > 0 => l[j] = "/")
      /\ \A m \in 1 .. Len(l) : l[m] = "/" => j > 0 /\ j <= m
  BY <1>2, IndexFacts
<1> HIDE DEF i, j
<1>5. j = IF i = 0 THEN Len(r) + 1 ELSE i
  <2>1. j > 0 /\ j <= Len(r) + 1
    <3>1. Len(r) + 1 \in 1 .. Len(l)
      BY <1>1, <1>2
    <3> QED
      BY <1>2, <1>4, <3>1
  <2>2. j \in 1 .. Len(r) => i > 0 /\ i <= j
    BY <1>2, <1>3, <1>4
  <2>3. i > 0 => j <= i
    <3> SUFFICES ASSUME i > 0 PROVE j <= i
      OBVIOUS
    <3>1. i \in 1 .. Len(r) /\ i \in 1 .. Len(l)
      BY <1>1, <1>2, <1>3
    <3>2. l[i] = "/"
      BY <1>2, <1>3, <3>1
    <3> QED
      BY <1>4, <3>1, <3>2
  <2>4. i \in Nat /\ j \in Nat /\ i <= Len(r)
    BY <1>1, <1>2, <1>3, <1>4
  <2>5. CASE i = 0
    BY <1>1, <2>1, <2>2, <2>4, <2>5
  <2>6. CASE i # 0
    BY <1>1, <2>1, <2>2, <2>3, <2>4, <2>6
  <2> QED
    BY <2>5, <2>6
<1>6. SegmentLength(r) = IF i = 0 THEN Len(r) ELSE i - 1
  BY DEF SegmentLength, i
<1>7. SegmentLength(l) = IF j = 0 THEN Len(l) ELSE j - 1
  BY DEF SegmentLength, j
<1>8. SegmentLength(l) = SegmentLength(r) /\ SegmentLength(r) \in 0 .. Len(r)
  BY <1>1, <1>2, <1>3, <1>5, <1>6, <1>7
<1>9. Len(r) # SegmentLength(r) + 1
  <2>1. i > 0 => i # Len(r)
    BY <1>3 DEF Last
  <2> QED
    BY <1>1, <1>3, <1>6, <2>1
<1> QED
  BY <1>8, <1>9 DEF l

\* Two lookups that go on from the same static node with the rests r of their paths.
LEMMA GoOnBeside ==
  ASSUME NEW s \in Seq(Char), NEW d \in Nat, NEW r, RestBeside(s, d, r), NEW y \in DOMAIN node,
         Static(node[y]), NEW k \in Nat, NEW l \in Nat, Len(s) + k <= l, d >= 1, NEW u, NEW v
  PROVE  Beside(Looking(y, r, u), Looking(y, Append(r, "/"), v), y, r, k + 1, l)
<1>1. r \in Seq(Char) /\ r # <<>> /\ Last(r) # "/" /\ Len(r) = Len(s) - d
  BY DEF RestBeside
<1>2. Len(s) \in Nat /\ Len(r) \in Nat
  BY <1>1, LenProperties
<1>3. Len(r) + (k + 1) <= l
  BY <1>1, <1>2
<1> QED
  BY <1>1, <1>3 DEF Beside

\* A ":name" takes the same segment from both.
LEMMA TakeBeside ==
  ASSUME NEW t, NEW x, NEW w, ParamBelow(t, x, w), NEW s \in Seq(Char), NEW d \in Nat,
         NEW r, RestBeside(s, d, r), NEW k \in Nat, NEW l \in Nat, Len(s) + k <= l, d >= 1, NEW u, NEW v,
         NEW a, a = TakeSegment(node[w], r, u), NEW b, b = TakeSegment(node[w], Append(r, "/"), v)
  PROVE  Settled(a, b) \/ \E y, z : Beside(a, b, y, z, k + 1, l)
<1> DEFINE wc == node[w]
           end == SegmentLength(r)
           y == wc.children[1]
           L == Append(r, "/")
           z == From(r, end)
<1>1. r \in Seq(Char) /\ r # <<>> /\ Last(r) # "/" /\ Len(r) = Len(s) - d
  BY DEF RestBeside
<1>2. SegmentLength(L) = end /\ end \in 0 .. Len(r) /\ Len(r) # end + 1
  BY <1>1, SegmentBeside
<1>3. Len(r) \in Nat /\ Len(L) = Len(r) + 1
  BY <1>1, LenProperties, AppendProperties, TokenAssumption
<1>4. wc.children # <<>> => y \in DOMAIN node /\ Static(node[y])
  BY DEF ParamBelow
<1> HIDE DEF end, L
<1>5. CASE end < Len(r) /\ wc.children # <<>>
  <2>1. \E p : a = Looking(y, z, p)
    BY <1>5 DEF TakeSegment, end
  <2>2. \E p : b = Looking(y, From(L, end), p)
    <3>1. SegmentLength(L) < Len(L)
      BY <1>2, <1>3
    <3> QED
      BY <1>2, <1>5, <3>1 DEF TakeSegment, L
  <2>3. RestBeside(r, end, z)
    <3>1. end \in Nat
      BY <1>2, <1>3
    <3> HIDE DEF z
    <3>2. z = From(r, end)
      BY DEF z
    <3> QED
      BY <1>1, <1>5, <3>1, <3>2, RestFacts
  <2> HIDE DEF y, z
  <2>4. /\ z \in Seq(Char) /\ z # <<>> /\ Last(z) # "/" /\ Len(z) = Len(r) - end
        /\ From(L, end) = Append(z, "/")
    BY <2>3 DEF RestBeside, L
  <2>5. Len(z) + (k + 1) <= l
    <3>1. Len(s) \in Nat /\ Len(z) \in Nat
      BY <2>4, LenProperties
    <3>2. Len(z) <= Len(r)
      BY <1>2, <1>3, <2>4
    <3> QED
      BY <1>1, <1>3, <3>1, <3>2
  <2>6. Beside(a, b, y, z, k + 1, l)
    BY <1>4, <1>5, <2>1, <2>2, <2>4, <2>5 DEF Beside, y
  <2> QED
    BY <2>6
<1>6. CASE end < Len(r) /\ wc.children = <<>>
  <2>1. a = Missing(Len(r) = end + 1)
    BY <1>6 DEF TakeSegment, end
  <2>2. (Len(r) = end + 1) = FALSE
    BY <1>2
  <2>3. Ended(a)
    BY <2>1, <2>2, EndedFacts
  <2> QED
    BY <2>3 DEF Settled
<1>7. CASE ~(end < Len(r)) /\ wc.data # NoData
  <2>1. \E p : a = Found(wc.data, p)
    BY <1>7 DEF TakeSegment, end
  <2> QED
    BY <2>1, EndedFacts DEF Settled
<1>8. CASE ~(end < Len(r)) /\ wc.data = NoData
  <2> DEFINE c == Len(wc.children) = 1 /\ node[y].path = <<"/">> /\ node[y].data # NoData
  <2>1. a = Missing(c)
    BY <1>8 DEF TakeSegment, end
  <2>2. CASE ~c
    <3>1. c = FALSE
      BY <2>2
    <3> HIDE DEF c
    <3>2. Ended(a)
      BY <2>1, <3>1, EndedFacts
    <3> QED
      BY <3>2 DEF Settled
  <2>3. CASE c
    <3>1. wc.children # <<>>
      BY <2>3, EmptySeq
    <3>2. end = Len(r)
      BY <1>2, <1>3, <1>8
    <3>3. \E p : b = Looking(y, From(L, end), p)
      <4>1. SegmentLength(L) < Len(L)
        BY <1>2, <1>3
      <4> QED
        BY <1>2, <3>1, <4>1 DEF TakeSegment, L
    <3>4. From(L, end) = <<"/">>
      <4> DEFINE e == From(L, end)
                 f == <<"/">>
      <4>1. L \in Seq(Char) /\ L[Len(r) + 1] = "/"
        BY <1>1, TokenAssumption, AppendProperties, SMTT(30) DEF L
      <4>2. /\ e \in Seq(Char) /\ Len(e) = IF end <= Len(L) THEN Len(L) - end ELSE 0
            /\ \A i \in 1 .. Len(L) - end : e[i] = L[end + i]
        <5>1. end \in Nat
          BY <1>2, <1>3
        <5> QED
          BY <4>1, <5>1, FromFacts
      <4>3. Len(e) = 1 /\ e[1] = "/"
        <5>1. end <= Len(L) /\ Len(L) - end = 1 /\ 1 \in 1 .. Len(L) - end /\ end + 1 = Len(r) + 1
          BY <1>3, <3>2
        <5>2. Len(e) = 1
          BY <4>2, <5>1
        <5>3. e[1] = L[end + 1]
          BY <4>2, <5>1
        <5> QED
          BY <4>1, <5>1, <5>2, <5>3
      <4>4. f \in Seq(Char) /\ Len(f) = 1 /\ f[1] = "/"
        BY TokenAssumption
      <4> HIDE DEF e, f
      <4>5. \A i \in 1 .. Len(e) : e[i] = f[i]
        BY <4>3, <4>4
      <4>6. e = f
        BY <4>2, <4>3, <4>4, <4>5, SeqEqual
      <4> QED
        BY <4>6 DEF e, f
    <3>5. Almost(b)
      BY <1>4, <2>3, <3>1, <3>3, <3>4 DEF Almost
    <3> QED
      BY <3>5 DEF Settled
  <2> QED
    BY <2>2, <2>3
<1> QED
  BY <1>5, <1>6, <1>7, <1>8

\* A turn of both.
LEMMA BesideStep ==
  ASSUME NEW t, NEW T, RestsAt(node, t, T, routes), NEW a, NEW b, NEW x, NEW s, NEW k \in Nat,
         NEW l \in Nat, Beside(a, b, x, s, k, l)
  PROVE  \/ Settled(LookTurn(a), LookTurn(b))
         \/ \E y, r : Beside(LookTurn(a), LookTurn(b), y, r, k + 1, l)
<1> DEFINE n == node[x]
           P == n.path
           L == Append(s, "/")
           w == n.wild[1]
           A == LookTurn(a)
           B == LookTurn(b)
           d == Len(P)
<1>1. /\ x \in DOMAIN node /\ Static(n) /\ s \in Seq(Char) /\ s # <<>> /\ Last(s) # "/"
      /\ Len(s) + k <= l
  BY DEF Beside
<1>2. PICK u, v : a = Looking(x, s, u) /\ b = Looking(x, L, v)
  BY DEF Beside
<1>3. StaticNode(t, x)
  BY <1>1, StaticNodeFacts
<1>4. /\ n \in NodeType(DOMAIN node) /\ P \in Seq(Char)
      /\ Len(n.indices) = Len(n.children) /\ Len(n.children) \in Nat
      /\ n.children # <<>> => P # <<>>
      /\ \A i \in 1 .. Len(n.children) :
           LET y == n.children[i] IN
           /\ y \in DOMAIN node /\ Static(node[y]) /\ n.indices[i] = IndexOf(node[y])
  BY <1>3 DEF StaticNode
<1>5. n.indices \in Seq(Char) /\ n.children \in Seq(DOMAIN node)
  BY <1>4 DEF NodeType
<1>6. /\ "/" \in Char /\ Len(s) \in Nat /\ d \in Nat
      /\ L \in Seq(Char) /\ Len(L) = Len(s) + 1 /\ L[Len(s) + 1] = "/"
      /\ \A i \in 1 .. Len(s) : L[i] = s[i]
  <2>1. "/" \in Char
    BY TokenAssumption
  <2> QED
    BY <1>1, <1>4, <2>1, AppendProperties, LenProperties
<1>7. s # <<"/">>
  <2> DEFINE c == <<"/">>
  <2>1. Len(c) = 1 /\ c[1] = "/"
    OBVIOUS
  <2> HIDE DEF c
  <2>2. s # c
    BY <1>1, <2>1 DEF Last
  <2> QED
    BY <2>2 DEF c
<1> HIDE DEF L
<1>8. P \in Seq(Token)
  BY <1>4, SeqMonotonic DEF Token
<1>9. CASE d < Len(s) /\ IsPrefix(P, s)
  <2> DEFINE r == From(s, d)
             R == Append(r, "/")
  <2>1. RestBeside(s, d, r)
    BY <1>1, <1>6, <1>9, RestFacts
  <2>2. From(L, d) = R /\ R[1] = r[1] /\ r # <<"/">>
    <3>1. Last(r) # "/" /\ Len(r) = Len(s) - d /\ r # <<>>
      BY <2>1 DEF RestBeside
    <3>2. r # <<"/">>
      <4> DEFINE c == <<"/">>
      <4>1. Len(c) = 1 /\ c[1] = "/"
        OBVIOUS
      <4> HIDE DEF c, r
      <4>2. r # c
        BY <3>1, <4>1 DEF Last
      <4> QED
        BY <4>2 DEF c
    <3> HIDE DEF r
    <3> QED
      BY <2>1, <3>2 DEF RestBeside, L
  <2>3. d < Len(L) /\ IsPrefix(P, L)
    <3>1. Len(P) <= Len(s) /\ \A i \in 1 .. Len(P) : P[i] = s[i]
      BY <1>1, <1>4, <1>9, PrefixFacts
    <3>2. \A i \in 1 .. Len(P) : P[i] = L[i]
      <4>1. \A i \in 1 .. Len(P) : i \in 1 .. Len(s)
        BY <1>6, <3>1
      <4> QED
        BY <1>6, <3>1, <4>1
    <3>3. Len(P) <= Len(L) /\ d < Len(L)
      BY <1>6, <1>9
    <3> QED
      BY <1>4, <1>6, <3>2, <3>3, PrefixFacts
  <2>4. A = IF Contains(n.indices, r[1]) THEN Looking(n.children[Index(n.indices, r[1])], r, u)
            ELSE IF n.wild = <<>> THEN Missing(r = <<"/">> /\ n.data # NoData)
            ELSE IF node[w].type = "param" THEN TakeSegment(node[w], r, u)
            ELSE TakeRest(node[node[w].children[1]], r, u)
    <3>1. ~a.over /\ a.n = x /\ a.path = s /\ a.params = u
      BY <1>2 DEF Looking
    <3>2. Len(s) > Len(n.path)
      BY <1>6, <1>9
    <3> QED
      BY <1>9, <3>1, <3>2 DEF LookTurn
  <2>5. B = IF Contains(n.indices, r[1]) THEN Looking(n.children[Index(n.indices, r[1])], R, v)
            ELSE IF n.wild = <<>> THEN Missing(R = <<"/">> /\ n.data # NoData)
            ELSE IF node[w].type = "param" THEN TakeSegment(node[w], R, v)
            ELSE TakeRest(node[node[w].children[1]], R, v)
    <3>1. ~b.over /\ b.n = x /\ b.path = L /\ b.params = v
      BY <1>2 DEF Looking
    <3>2. Len(L) > Len(n.path)
      BY <1>6, <2>3
    <3> HIDE DEF r, R
    <3>3. B = IF Contains(n.indices, R[1]) THEN Looking(n.children[Index(n.indices, R[1])], R, v)
              ELSE IF n.wild = <<>> THEN Missing(R = <<"/">> /\ n.data # NoData)
              ELSE IF node[w].type = "param" THEN TakeSegment(node[w], R, v)
              ELSE TakeRest(node[node[w].children[1]], R, v)
      BY <2>2, <2>3, <3>1, <3>2 DEF LookTurn
    <3> QED
      BY <2>2, <3>3
  <2> HIDE DEF A, B, r
  <2>6. CASE Contains(n.indices, r[1])
    <3> DEFINE j == Index(n.indices, r[1])
               y == n.children[j]
    <3>1. j \in 1 .. Len(n.children)
      <4>1. PICK i \in 1 .. Len(n.indices) : n.indices[i] = r[1]
        BY <2>6 DEF Contains
      <4>2. j \in 0 .. Len(n.indices) /\ j > 0
        BY <1>5, <4>1, IndexFacts
      <4> HIDE DEF j
      <4> QED
        BY <1>4, <4>2
    <3>2. d >= 1
      <4>1. n.children # <<>>
        BY <1>5, <3>1, EmptySeq
      <4>2. P # <<>>
        BY <1>4, <4>1
      <4>3. d # 0
        BY <1>4, <4>2, EmptySeq
      <4> QED
        BY <1>6, <4>3
    <3>3. y \in DOMAIN node /\ Static(node[y])
      BY <1>4, <3>1
    <3>4. A = Looking(y, r, u) /\ B = Looking(y, R, v)
      BY <2>4, <2>5, <2>6
    <3> HIDE DEF y
    <3>5. Beside(A, B, y, r, k + 1, l)
      BY <1>1, <1>6, <2>1, <3>2, <3>3, <3>4, GoOnBeside
    <3> QED
      BY <3>5 DEF A, B
  <2>7. CASE ~Contains(n.indices, r[1]) /\ n.wild = <<>>
    <3>1. A = Missing(r = <<"/">> /\ n.data # NoData)
      BY <2>4, <2>7
    <3>2. (r = <<"/">> /\ n.data # NoData) = FALSE
      BY <2>2
    <3>3. Ended(A)
      BY <3>1, <3>2, EndedFacts
    <3> QED
      BY <3>3 DEF Settled, A
  <2>8. CASE ~Contains(n.indices, r[1]) /\ n.wild # <<>> /\ node[w].type = "param"
    <3>1. ParamBelow(t, x, w)
      BY <1>1, <2>8, WildBelow
    <3>2. d >= 1
      <4>1. P # <<>>
        BY <3>1 DEF ParamBelow
      <4>2. d # 0
        BY <1>4, <4>1, EmptySeq
      <4> QED
        BY <1>6, <4>2
    <3>3. A = TakeSegment(node[w], r, u) /\ B = TakeSegment(node[w], R, v)
      BY <2>4, <2>5, <2>8
    <3> HIDE DEF w
    <3>4. Settled(A, B) \/ \E y, z : Beside(A, B, y, z, k + 1, l)
      BY <1>1, <1>6, <2>1, <3>1, <3>2, <3>3, TakeBeside
    <3> QED
      BY <3>4 DEF A, B
  <2>9. CASE ~Contains(n.indices, r[1]) /\ n.wild # <<>> /\ node[w].type # "param"
    <3>1. A = TakeRest(node[node[w].children[1]], r, u)
      BY <2>4, <2>9
    <3>2. Ended(A)
      BY <3>1, EndedFacts DEF TakeRest
    <3> QED
      BY <3>2 DEF Settled, A
  <2> QED
    BY <2>6, <2>7, <2>8, <2>9
<1>10. CASE ~(d < Len(s) /\ IsPrefix(P, s)) /\ s = P
  <2> DEFINE i == Index(n.indices, "/")
             y == n.children[i]
             c == i > 0 /\ Len(node[y].path) = 1 /\ node[y].data # NoData
  <2>1. A = AtNode(n, s, u)
    <3>1. ~a.over /\ a.n = x /\ a.path = s /\ a.params = u
      BY <1>2 DEF Looking
    <3>2. ~(Len(s) > Len(n.path) /\ IsPrefix(n.path, s))
      BY <1>6, <1>10
    <3> QED
      BY <1>10, <3>1, <3>2 DEF LookTurn
  <2>2. AtNode(n, s, u) = IF n.data # NoData THEN Found(n.data, u) ELSE Missing(c)
    BY <1>7 DEF AtNode
  <2>3. CASE n.data # NoData
    <3>1. Ended(A)
      BY <2>1, <2>2, <2>3, EndedFacts
    <3> QED
      BY <3>1 DEF Settled
  <2>4. CASE n.data = NoData /\ ~c
    <3>1. c = FALSE
      BY <2>4
    <3> HIDE DEF c
    <3>2. Ended(A)
      BY <2>1, <2>2, <2>4, <3>1, EndedFacts
    <3> QED
      BY <3>2 DEF Settled
  <2>5. CASE c
    <3>1. i \in 1 .. Len(n.children) /\ n.indices[i] = "/"
      <4>1. /\ i \in 0 .. Len(n.indices)
            /\ i > 0 => n.indices[i] = "/"
        BY <1>5, IndexFacts
      <4> HIDE DEF i
      <4> QED
        BY <1>4, <2>5, <4>1
    <3>2. y \in DOMAIN node /\ IndexOf(node[y]) = "/"
      BY <1>4, <3>1
    <3>3. node[y].path = <<"/">>
      <4> DEFINE e == node[y].path
                 f == <<"/">>
      <4>1. e \in Seq(Token)
        BY <3>2 DEF RestsAt, Tree, NodeOK, NodeType
      <4>2. Len(e) = 1 /\ e # <<>>
        <5>1. Len(e) = 1
          BY <2>5
        <5>2. e # <<>>
          <6> HIDE DEF e
          <6>1. Len(<<>>) = 0
            BY EmptySeq
          <6> QED
            BY <5>1, <6>1
        <5> QED
          BY <5>1, <5>2
      <4>3. e[1] = "/"
        BY <3>2, <4>2 DEF IndexOf
      <4>4. f \in Seq(Token) /\ Len(f) = 1 /\ f[1] = "/"
        BY TokenAssumption DEF Token
      <4> HIDE DEF e, f
      <4>5. \A m \in 1 .. Len(e) : e[m] = f[m]
        BY <4>2, <4>3, <4>4
      <4>6. e = f
        BY <4>1, <4>2, <4>4, <4>5, SeqEqual
      <4> QED
        BY <4>6 DEF e, f
    <3>4. From(L, d) = <<"/">>
      <4> DEFINE e == From(L, d)
                 f == <<"/">>
      <4>1. /\ e \in Seq(Char) /\ Len(e) = IF d <= Len(L) THEN Len(L) - d ELSE 0
            /\ \A m \in 1 .. Len(L) - d : e[m] = L[d + m]
        <5>1. L \in Seq(Char) /\ d \in Nat
          BY <1>6
        <5> HIDE DEF d
        <5> QED
          BY <5>1, FromFacts
      <4>2. Len(e) = 1 /\ e[1] = "/"
        <5>1. d <= Len(L) /\ Len(L) - d = 1 /\ 1 \in 1 .. Len(L) - d /\ d = Len(s)
          BY <1>6, <1>10
        <5>2. Len(e) = 1
          BY <4>1, <5>1
        <5>3. e[1] = L[d + 1]
          BY <4>1, <5>1
        <5> QED
          BY <1>6, <5>1, <5>2, <5>3
      <4>3. f \in Seq(Char) /\ Len(f) = 1 /\ f[1] = "/"
        BY TokenAssumption
      <4> HIDE DEF e, f
      <4>4. \A m \in 1 .. Len(e) : e[m] = f[m]
        BY <4>2, <4>3
      <4>5. e = f
        BY <4>1, <4>2, <4>3, <4>4, SeqEqual
      <4> QED
        BY <4>5 DEF e, f
    <3>5. d < Len(L) /\ IsPrefix(P, L)
      <4>1. Len(P) <= Len(L) /\ d < Len(L)
        BY <1>6, <1>10
      <4>2. \A m \in 1 .. Len(P) : P[m] = L[m]
        BY <1>6, <1>10
      <4> QED
        BY <1>4, <1>6, <4>1, <4>2, PrefixFacts
    <3>6. B = Looking(y, <<"/">>, v)
      <4>1. ~b.over /\ b.n = x /\ b.path = L /\ b.params = v
        BY <1>2 DEF Looking
      <4>2. Len(L) > Len(n.path)
        BY <1>6, <3>5
      <4>3. Contains(n.indices, "/")
        <5>1. i \in 1 .. Len(n.indices)
          BY <1>4, <3>1
        <5> HIDE DEF i
        <5> QED
          BY <3>1, <5>1 DEF Contains
      <4> DEFINE f == <<"/">>
      <4>4. f[1] = "/" /\ From(L, d) = f
        BY <3>4
      <4> HIDE DEF f
      <4>5. B = Looking(n.children[Index(n.indices, f[1])], f, v)
        BY <3>5, <4>1, <4>2, <4>3, <4>4 DEF LookTurn
      <4> QED
        BY <4>4, <4>5 DEF f
    <3>7. Almost(B)
      BY <2>5, <3>2, <3>3, <3>6 DEF Almost
    <3> QED
      BY <3>7 DEF Settled
  <2> QED
    BY <2>3, <2>4, <2>5
<1>11. CASE ~(d < Len(s) /\ IsPrefix(P, s)) /\ s # P
  <2> DEFINE c == s = <<"/">> \/ (P = Append(s, "/") /\ n.data # NoData)
  <2>1. A = Missing(c)
    <3>1. ~a.over /\ a.n = x /\ a.path = s /\ a.params = u
      BY <1>2 DEF Looking
    <3>2. ~(Len(s) > Len(n.path) /\ IsPrefix(n.path, s))
      BY <1>6, <1>11
    <3> QED
      BY <1>11, <3>1, <3>2 DEF LookTurn
  <2>2. CASE ~c
    <3>1. c = FALSE
      BY <2>2
    <3> HIDE DEF c
    <3>2. Ended(A)
      BY <2>1, <3>1, EndedFacts
    <3> QED
      BY <3>2 DEF Settled
  <2>3. CASE c
    <3>1. P = L /\ n.data # NoData
      BY <1>7, <2>3 DEF L
    <3>2. b = Looking(x, n.path, v)
      BY <1>2, <3>1
    <3>3. Ended(B)
      BY <1>8, <3>1, <3>2, TurnEnd
    <3> QED
      BY <3>3 DEF Settled
  <2> QED
    BY <2>2, <2>3
<1> QED
  BY <1>9, <1>10, <1>11

\* Of a path and the same with one more slash, not both lookups recommend a redirect.
LEMMA LookupsBeside ==
  ASSUME NEW t, NEW T, RestsAt(node, t, T, routes), NEW s \in Seq(Char), s # <<>>,
         Last(s) # "/"
  PROVE  ~(Lookup(s).tsr /\ Lookup(Append(s, "/")).tsr)
<1> DEFINE l == Append(s, "/")
           A == Look(s)
           B == Look(l)
           S == {k \in Nat : \/ Settled(A[k], B[k])
                             \/ \E x, r : Beside(A[k], B[k], x, r, k, Len(s))}
           k == Len(s) + 1
<1>1. \A i \in Nat : A[i + 1] = LookTurn(A[i])
  BY LookUnfolds
<1>2. \A i \in Nat : B[i + 1] = LookTurn(B[i])
  BY LookUnfolds
<1>3. A[0] = Looking(Root, s, <<>>)
  BY LookUnfolds
<1>4. B[0] = Looking(Root, l, <<>>)
  BY LookUnfolds
<1>5. Len(s) \in Nat /\ "/" \in Char
  BY LenProperties, TokenAssumption
<1>6. Len(l) = Len(s) + 1
  BY <1>5, AppendProperties
<1>7. Lookup(s) = A[k]
  BY DEF Lookup
<1>8. Lookup(l) = B[k + 1]
  BY <1>6 DEF Lookup
<1> HIDE DEF A, B
<1>9. 0 \in S
  <2>1. Root \in DOMAIN node /\ Static(node[Root])
    BY DEF RestsAt, Tree
  <2>2. Beside(A[0], B[0], Root, s, 0, Len(s))
    BY <1>3, <1>4, <1>5, <2>1 DEF Beside
  <2> QED
    BY <2>2
<1>10. ASSUME NEW i \in Nat, i \in S PROVE i + 1 \in S
  <2>1. A[i + 1] = LookTurn(A[i]) /\ B[i + 1] = LookTurn(B[i])
    BY <1>1, <1>2
  <2>2. CASE Settled(A[i], B[i])
    <3>1. Settled(LookTurn(A[i]), LookTurn(B[i]))
      BY <2>2, SettledStep
    <3> QED
      BY <2>1, <3>1
  <2>3. CASE \E x, r : Beside(A[i], B[i], x, r, i, Len(s))
    <3>1. PICK x, r : Beside(A[i], B[i], x, r, i, Len(s))
      BY <2>3
    <3>2. \/ Settled(LookTurn(A[i]), LookTurn(B[i]))
          \/ \E y, z : Beside(LookTurn(A[i]), LookTurn(B[i]), y, z, i + 1, Len(s))
      BY <1>5, <3>1, BesideStep
    <3> QED
      BY <2>1, <3>2
  <2> QED
    BY <1>10, <2>2, <2>3
<1>11. k \in Nat
  BY <1>5
<1>12. k \in S
  <2> HIDE DEF S
  <2> QED
    BY <1>9, <1>10, <1>11, SetInduction
<1>13. \A x, r : ~Beside(A[k], B[k], x, r, k, Len(s))
  <2> SUFFICES ASSUME NEW x, NEW r, Beside(A[k], B[k], x, r, k, Len(s)) PROVE FALSE
    OBVIOUS
  <2>1. r \in Seq(Char) /\ Len(r) + k <= Len(s)
    BY DEF Beside
  <2>2. Len(r) \in Nat
    BY <2>1, LenProperties
  <2> QED
    BY <1>5, <2>1, <2>2
<1>14. Settled(A[k], B[k])
  BY <1>12, <1>13
<1>15. Ended(A[k]) \/ Ended(LookTurn(B[k]))
  <2>1. CASE Ended(B[k])
    BY <2>1, EndedFacts
  <2>2. CASE Almost(B[k])
    <3>1. PICK y, params :
            /\ y \in DOMAIN node
            /\ node[y].path = <<"/">> /\ node[y].data # NoData
            /\ B[k] = Looking(y, <<"/">>, params)
      BY <2>2 DEF Almost
    <3>2. node[y].path \in Seq(Token)
      BY <3>1, TokenAssumption DEF Token
    <3>3. B[k] = Looking(y, node[y].path, params)
      BY <3>1
    <3> QED
      BY <3>1, <3>2, <3>3, TurnEnd
  <2> QED
    BY <1>14, <2>1, <2>2 DEF Settled
<1>16. B[k + 1] = LookTurn(B[k])
  BY <1>2, <1>11
<1> HIDE DEF k
<1> QED
  BY <1>7, <1>8, <1>15, <1>16 DEF Ended

\* A path that does not end with a slash, and the one that has one more.
LEMMA PathBeside ==
  ASSUME NEW q \in Path, Len(q) > 1
  PROVE  \E s \in Seq(Char) :
           /\ s # <<>> /\ Last(s) # "/"
           /\ {q, Redirected(q)} = {s, Append(s, "/")}
<1>1. q \in Seq(Char) /\ q # <<>>
  BY PathAssumption
<1>2. Len(q) \in Nat
  BY <1>1, LenProperties
<1>3. CASE Last(q) # "/"
  BY <1>1, <1>3 DEF Redirected
<1>4. CASE Last(q) = "/"
  <2> DEFINE s == Front(q)
             m == Len(q) - 1
  <2>1. m \in Nat /\ 1 <= m /\ m + 1 = Len(q) /\ \A i \in 1 .. m : i \in 1 .. Len(q)
    BY <1>2
  <2>2. s \in Seq(Char) /\ Len(s) = m /\ \A i \in 1 .. m : s[i] = q[i]
    <3>1. \A i \in 1 .. m : q[i] \in Char
      BY <1>1, <2>1, ElementOfSeq
    <3>2. s = SubSeq(q, 1, m)
      BY DEF Front
    <3> HIDE DEF s
    <3>3. /\ SubSeq(q, 1, m) \in Seq(Char)
          /\ Len(SubSeq(q, 1, m)) = IF 1 <= m THEN m - 1 + 1 ELSE 0
          /\ \A i \in 1 .. m - 1 + 1 : SubSeq(q, 1, m)[i] = q[1 + i - 1]
      BY <1>1, <1>2, <2>1, <3>1, SubSeqProperties
    <3> HIDE DEF m
    <3>4. m - 1 + 1 = m /\ \A i \in 1 .. m : 1 + i - 1 = i
      BY <2>1
    <3> QED
      BY <2>1, <3>2, <3>3, <3>4
  <2> HIDE DEF s
  <2>3. s # <<>>
    <3>1. Len(<<>>) = 0
      BY EmptySeq
    <3> QED
      BY <2>1, <2>2, <3>1
  <2>4. Last(s) # "/"
    <3>1. q[m + 1] = "/"
      BY <1>4, <2>1 DEF Last
    <3>2. m + 1 \in 2 .. Len(q) /\ (m + 1) - 1 = m
      BY <1>2, <2>1
    <3>3. q[m] # "/"
      BY <3>1, <3>2, NormalAssumption
    <3>4. s[m] = q[m]
      BY <2>1, <2>2
    <3> HIDE DEF m
    <3> QED
      BY <2>2, <3>3, <3>4 DEF Last
  <2>5. q = Append(s, "/")
    <3> DEFINE b == Append(s, "/")
    <3>1. "/" \in Char
      BY TokenAssumption
    <3>2. /\ b \in Seq(Char) /\ Len(b) = m + 1 /\ b[m + 1] = "/"
          /\ \A i \in 1 .. m : b[i] = s[i]
      BY <2>2, <3>1, AppendProperties
    <3> HIDE DEF b
    <3>3. ASSUME NEW i \in 1 .. Len(q) PROVE q[i] = b[i]
      <4>1. CASE i = m + 1
        BY <1>4, <2>1, <3>2, <4>1 DEF Last
      <4>2. CASE i # m + 1
        <5>1. i \in 1 .. m
          <6>1. i \in Nat /\ 1 <= i /\ i <= Len(q)
            BY <1>2
          <6> HIDE DEF m
          <6> QED
            BY <2>1, <4>2, <6>1
        <5> HIDE DEF m
        <5> QED
          BY <2>2, <3>2, <5>1
      <4> QED
        BY <4>1, <4>2
    <3>4. q = b
      BY <1>1, <2>1, <3>2, <3>3, SeqEqual
    <3> QED
      BY <3>4 DEF b
  <2>6. Redirected(q) = s
    BY <1>4 DEF Redirected, s
  <2> QED
    BY <2>2, <2>3, <2>4, <2>5, <2>6
<1> QED
  BY <1>3, <1>4

\* The invariant keeps two paths from redirecting to each other.
LEMMA InvNoLoop == Inv => NoRedirectLoop
<1> SUFFICES ASSUME Inv, call.loop = "idle", NEW q \in Path, Redirects(q),
                    Redirects(Redirected(q))
             PROVE  FALSE
  BY DEF NoRedirectLoop
<1>1. PICK t, T : RestsAt(node, t, T, routes)
  BY DEF Inv
<1>2. Len(q) > 1 /\ Lookup(q).tsr /\ Lookup(Redirected(q)).tsr
  BY DEF Redirects
<1>3. PICK s \in Seq(Char) :
        /\ s # <<>> /\ Last(s) # "/"
        /\ {q, Redirected(q)} = {s, Append(s, "/")}
  BY <1>2, PathBeside
<1>4. ~(Lookup(s).tsr /\ Lookup(Append(s, "/")).tsr)
  BY <1>1, <1>3, LookupsBeside
<1>5. \A r \in {q, Redirected(q)} : Lookup(r).tsr
  BY <1>2
<1>6. s \in {q, Redirected(q)} /\ Append(s, "/") \in {q, Redirected(q)}
  BY <1>3
<1> QED
  BY <1>4, <1>5, <1>6

\* Whatever is registered, the redirect that handleFastHTTP answers with, on getValue's
\* recommendation, leads to a path that is not redirected back (mux.go, tree.go).
THEOREM RedirectsEnd == Spec => []NoRedirectLoop
<1>1. Init => Inv
  BY InitRests
<1>2. Inv /\ [Next]_vars => Inv'
  BY NextInv
<1>3. Inv => NoRedirectLoop
  BY InvNoLoop
<1> QED
  BY <1>1, <1>2, <1>3, PTL DEF Spec
=============================================================================
