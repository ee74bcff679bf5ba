----------------------------- MODULE RouterProofs -----------------------------
(***************************************************************************)
(* Proofs about Router for any muxes, middlewares, capacity, paths and     *)
(* number of routes.                                                       *)
(***************************************************************************)
EXTENDS Router, SequenceTheorems, NaturalsInduction, WellFoundedInduction, TLAPS

USE MuxAssumption, ArrAssumption, BatchAssumption, MethodAssumption, PathAssumption

Element == Middleware \cup {None}

-----------------------------------------------------------------------------
(* Sequences                                                               *)

\* A function on 1 .. n is a sequence of length n.
LEMMA MakeSeq ==
  ASSUME NEW S, NEW n \in Nat, NEW f \in [1 .. n -> S]
  PROVE  f \in Seq(S) /\ Len(f) = n
<1>1. f \in Seq(S)
  BY SeqDef
<1>2. DOMAIN f = 1 .. Len(f) /\ Len(f) \in Nat
  BY <1>1, LenProperties
<1> QED
  BY <1>1, <1>2

\* joinPath gives a path.
LEMMA JoinType ==
  ASSUME NEW p \in Seq(Token), NEW q \in Seq(Token)
  PROVE  Join(p, q) \in Seq(Token)
<1>1. q # <<>> => Tail(q) \in Seq(Token)
  BY HeadTailProperties
<1>2. <<"/">> \in Seq(Token)
  OBVIOUS
<1>3. p \o q \in Seq(Token) /\ p \o <<"/">> \in Seq(Token)
  BY <1>2, ConcatProperties
<1>4. p \o <<"/">> \o q \in Seq(Token)
  BY <1>3, ConcatProperties
<1>5. q # <<>> => p \o Tail(q) \in Seq(Token)
  BY <1>1, ConcatProperties
<1> QED
  BY <1>3, <1>4, <1>5 DEF Join

\* Writing in place leaves the first n elements, puts ws behind them and
\* changes elements to middlewares only.
LEMMA WriteFacts ==
  ASSUME NEW s \in Seq(Element), NEW n \in Nat, NEW ws \in Seq(Middleware),
         n + Len(ws) <= Len(s)
  PROVE  /\ Write(s, n, ws) \in Seq(Element)
         /\ Len(Write(s, n, ws)) = Len(s)
         /\ \A i \in 1 .. n : Write(s, n, ws)[i] = s[i]
         /\ \A i \in 1 .. Len(ws) : Write(s, n, ws)[n + i] = ws[i]
         /\ \A i \in 1 .. Len(s) : \/ Write(s, n, ws)[i] = s[i]
                                   \/ Write(s, n, ws)[i] \in Middleware
<1> DEFINE t == Write(s, n, ws)
<1>1. Len(s) \in Nat /\ DOMAIN s = 1 .. Len(s) /\ \A i \in 1 .. Len(s) : s[i] \in Element
  BY LenProperties
<1>2. Len(ws) \in Nat /\ \A i \in 1 .. Len(ws) : ws[i] \in Middleware
  BY LenProperties
<1>3. t = [i \in 1 .. Len(s) |-> IF i \in n + 1 .. n + Len(ws) THEN ws[i - n] ELSE s[i]]
  BY <1>1 DEF Write
<1>4. \A i \in 1 .. Len(s) : i \in n + 1 .. n + Len(ws) => i - n \in 1 .. Len(ws)
  BY <1>1, <1>2
<1>5. t \in [1 .. Len(s) -> Element]
  BY <1>1, <1>2, <1>3, <1>4 DEF Element
<1>6. t \in Seq(Element) /\ Len(t) = Len(s)
  BY <1>1, <1>5, MakeSeq
<1>7. \A i \in 1 .. n : t[i] = s[i]
  BY <1>1, <1>2, <1>3
<1>8. \A i \in 1 .. Len(ws) : t[n + i] = ws[i]
  BY <1>1, <1>2, <1>3
<1>9. \A i \in 1 .. Len(s) : t[i] = s[i] \/ t[i] \in Middleware
  BY <1>2, <1>3, <1>4
<1> QED
  BY <1>6, <1>7, <1>8, <1>9

\* A new array has the first n elements of the old one and ws behind them.
LEMMA GrownFacts ==
  ASSUME NEW s \in Seq(Element), NEW n \in Nat, NEW ws \in Seq(Middleware),
         n <= Len(s)
  PROVE  /\ Grown(s, n, ws) \in Seq(Element)
         /\ n + Len(ws) <= Len(Grown(s, n, ws))
         /\ \A i \in 1 .. n : Grown(s, n, ws)[i] = s[i]
         /\ \A i \in 1 .. Len(ws) : Grown(s, n, ws)[n + i] = ws[i]
<1> DEFINE t == Grown(s, n, ws)
           cap == IF n + Len(ws) > 2 * Len(s) THEN n + Len(ws) ELSE 2 * Len(s)
<1>1. Len(s) \in Nat /\ DOMAIN s = 1 .. Len(s) /\ \A i \in 1 .. Len(s) : s[i] \in Element
  BY LenProperties
<1>2. Len(ws) \in Nat /\ \A i \in 1 .. Len(ws) : ws[i] \in Middleware
  BY LenProperties
<1>3. t = [i \in 1 .. cap |-> IF i <= n THEN s[i] ELSE IF i <= n + Len(ws) THEN ws[i - n] ELSE None]
  BY DEF Grown
<1>4. cap \in Nat /\ n + Len(ws) <= cap
  BY <1>1, <1>2
<1>5. ASSUME NEW i \in 1 .. cap PROVE t[i] \in Element
  <2>1. CASE i <= n
    BY <1>1, <1>3, <2>1, <1>4
  <2>2. CASE ~(i <= n) /\ i <= n + Len(ws)
    <3>1. i - n \in 1 .. Len(ws)
      BY <1>2, <1>4, <2>2
    <3> QED
      BY <1>2, <1>3, <2>2, <3>1 DEF Element
  <2>3. CASE ~(i <= n) /\ ~(i <= n + Len(ws))
    BY <1>3, <2>3 DEF Element
  <2> QED
    BY <2>1, <2>2, <2>3
<1>6. t \in [1 .. cap -> Element]
  BY <1>3, <1>5
<1>7. t \in Seq(Element) /\ Len(t) = cap
  BY <1>4, <1>6, MakeSeq
<1>8. \A i \in 1 .. n : t[i] = s[i]
  BY <1>2, <1>3, <1>4
<1>9. \A i \in 1 .. Len(ws) : t[n + i] = ws[i]
  BY <1>2, <1>3, <1>4
<1> QED
  BY <1>4, <1>7, <1>8, <1>9

-----------------------------------------------------------------------------
(* Types                                                                   *)

\* What append does to the stacks: m's gets ws at its end, and another one stays
\* as it is unless it reaches beyond m's in the same array.
LEMMA AppendFacts ==
  ASSUME TypeOK, NEW m \in made, NEW ws \in Seq(Middleware), AppendTo(m, ws)
  PROVE  /\ heap' \in [Arr -> Seq(Element)]
         /\ mws' \in [Mux -> [arr : Arr, len : Nat]]
         /\ \A x \in Mux \ {m} : mws'[x] = mws[x]
         /\ mws'[m].len = mws[m].len + Len(ws)
         /\ \/ mws'[m].arr = mws[m].arr
            \/ \A x \in made : mws[x].arr # mws'[m].arr
         /\ \A x \in made : /\ mws'[x].len <= Len(heap'[mws'[x].arr])
                            /\ heap'[mws'[x].arr] # <<>>
                            /\ Stack(x)' \in Seq(Middleware)
         /\ Stack(m)' = Stack(m) \o ws
         /\ \A x \in made \ {m} :
              (mws[x].arr = mws[m].arr => mws[x].len <= mws[m].len) => Stack(x)' = Stack(x)
<1> DEFINE a == mws[m].arr
           n == mws[m].len
           s == heap[a]
<1>1. m \in Mux /\ a \in Arr /\ n \in Nat /\ s \in Seq(Element) /\ n <= Len(s)
  BY DEF TypeOK, Element
<1>2. Len(ws) \in Nat /\ Len(s) \in Nat
  BY <1>1, LenProperties
<1>3. \A x \in made : /\ x \in Mux /\ mws[x] \in [arr : Arr, len : Nat]
                      /\ mws[x].len <= Len(heap[mws[x].arr]) /\ heap[mws[x].arr] # <<>>
                      /\ heap[mws[x].arr] \in Seq(Element)
                      /\ Len(heap[mws[x].arr]) \in Nat
  BY LenProperties DEF TypeOK, Element
<1>4. \A x \in made : /\ Stack(x) \in Seq(Middleware) /\ Len(Stack(x)) = mws[x].len
                      /\ \A i \in 1 .. mws[x].len : heap[mws[x].arr][i] \in Middleware
  <2> SUFFICES ASSUME NEW x \in made
               PROVE  /\ Stack(x) \in Seq(Middleware) /\ Len(Stack(x)) = mws[x].len
                      /\ \A i \in 1 .. mws[x].len : heap[mws[x].arr][i] \in Middleware
    OBVIOUS
  <2>1. Stack(x) \in Seq(Middleware)
    BY DEF TypeOK
  <2>2. DOMAIN Stack(x) = 1 .. Len(Stack(x)) /\ Len(Stack(x)) \in Nat
        /\ \A i \in 1 .. Len(Stack(x)) : Stack(x)[i] \in Middleware
    BY <2>1, LenProperties
  <2>3. DOMAIN Stack(x) = 1 .. mws[x].len
    BY DEF Stack
  <2>4. Len(Stack(x)) = mws[x].len
    BY <1>3, <2>2, <2>3
  <2>5. \A i \in 1 .. mws[x].len : Stack(x)[i] = heap[mws[x].arr][i]
    BY DEF Stack
  <2> QED
    BY <2>1, <2>2, <2>4, <2>5
<1> DEFINE after == n + Len(ws)
\* A stack that reads the same elements is the same.
<1>5. ASSUME NEW x \in made, mws'[x] = mws[x],
             \A i \in 1 .. mws[x].len : heap'[mws[x].arr][i] = heap[mws[x].arr][i]
      PROVE  Stack(x)' = Stack(x)
  BY <1>5 DEF Stack
\* What holds of m in either case.
<1>6. ASSUME NEW t \in Seq(Element), after <= Len(t), NEW b \in Arr,
             \A i \in 1 .. n : t[i] = s[i],
             \A i \in 1 .. Len(ws) : t[n + i] = ws[i],
             mws' = [mws EXCEPT ![m] = [arr |-> b, len |-> after]],
             heap' = [heap EXCEPT ![b] = t]
      PROVE  /\ heap' \in [Arr -> Seq(Element)]
             /\ mws' \in [Mux -> [arr : Arr, len : Nat]]
             /\ \A x \in Mux \ {m} : mws'[x] = mws[x]
             /\ mws'[m].len = after /\ mws'[m].arr = b /\ heap'[b] = t
             /\ Stack(m)' = Stack(m) \o ws
             /\ Stack(m)' \in Seq(Middleware)
  <2>1. heap \in [Arr -> Seq(Element)] /\ mws \in [Mux -> [arr : Arr, len : Nat]]
    BY DEF TypeOK, Element
  <2>2. heap' \in [Arr -> Seq(Element)] /\ heap'[b] = t
    BY <1>6, <2>1
  <2>3. after \in Nat
    BY <1>1, <1>2
  <2>4. mws' \in [Mux -> [arr : Arr, len : Nat]] /\ mws'[m] = [arr |-> b, len |-> after]
        /\ \A x \in Mux \ {m} : mws'[x] = mws[x]
    BY <1>1, <1>6, <2>1, <2>3
  <2>5. Stack(m)' = [i \in 1 .. after |-> t[i]]
    BY <2>2, <2>4 DEF Stack
  <2> DEFINE joined == Stack(m) \o ws
  <2>6. /\ joined \in Seq(Middleware) /\ Len(joined) = after
        /\ \A i \in 1 .. after : joined[i] = IF i <= n THEN Stack(m)[i] ELSE ws[i - n]
    <3>1. Stack(m) \in Seq(Middleware) /\ Len(Stack(m)) = n
      BY <1>4
    <3>2. /\ joined \in Seq(Middleware) /\ Len(joined) = Len(Stack(m)) + Len(ws)
          /\ \A i \in 1 .. Len(Stack(m)) + Len(ws) :
               joined[i] = IF i <= Len(Stack(m)) THEN Stack(m)[i] ELSE ws[i - Len(Stack(m))]
      <4> DEFINE u == Stack(m)
      <4>1. u \in Seq(Middleware)
        BY <3>1
      <4> HIDE DEF u
      <4>2. /\ u \o ws \in Seq(Middleware) /\ Len(u \o ws) = Len(u) + Len(ws)
            /\ \A i \in 1 .. Len(u) + Len(ws) :
                 (u \o ws)[i] = IF i <= Len(u) THEN u[i] ELSE ws[i - Len(u)]
        BY <4>1, ConcatProperties, ZenonT(40)
      <4> QED
        BY <4>2 DEF u
    <3> QED
      BY <3>1, <3>2
  <2>7. ASSUME NEW i \in 1 .. after PROVE joined[i] = t[i]
    <3>1. CASE i <= n
      <4>1. i \in 1 .. n
        BY <1>1, <2>3, <3>1
      <4>2. Stack(m)[i] = s[i]
        BY <4>1 DEF Stack
      <4> QED
        BY <1>6, <2>6, <3>1, <4>1, <4>2
    <3>2. CASE ~(i <= n)
      <4>1. i - n \in 1 .. Len(ws) /\ n + (i - n) = i
        BY <1>1, <1>2, <3>2
      <4>2. t[n + (i - n)] = ws[i - n]
        BY <1>6, <4>1
      <4> QED
        BY <2>6, <3>2, <4>1, <4>2
    <3> QED
      BY <3>1, <3>2
  <2>8. DOMAIN joined = 1 .. after /\ joined = [i \in DOMAIN joined |-> joined[i]]
    BY <2>6, LenProperties
  <2>9. Stack(m)' = joined
    BY <2>5, <2>7, <2>8
  <2> QED
    BY <2>2, <2>4, <2>6, <2>9
<1>7. CASE after <= Len(s)
  <2> DEFINE t == Write(s, n, ws)
  <2>1. /\ t \in Seq(Element) /\ Len(t) = Len(s)
        /\ \A i \in 1 .. n : t[i] = s[i]
        /\ \A i \in 1 .. Len(ws) : t[n + i] = ws[i]
        /\ \A i \in 1 .. Len(s) : t[i] = s[i] \/ t[i] \in Middleware
    <3>1. s \in Seq(Element) /\ n \in Nat /\ n + Len(ws) <= Len(s)
      BY <1>1, <1>7
    <3> HIDE DEF s, n
    <3> QED
      BY <3>1, WriteFacts
  <2>2. /\ heap' = [heap EXCEPT ![a] = t]
        /\ mws' = [mws EXCEPT ![m] = [arr |-> a, len |-> after]]
    BY <1>7 DEF AppendTo
  <2> HIDE DEF t
  <2>3. /\ heap' \in [Arr -> Seq(Element)]
        /\ mws' \in [Mux -> [arr : Arr, len : Nat]]
        /\ \A x \in Mux \ {m} : mws'[x] = mws[x]
        /\ mws'[m].len = after /\ mws'[m].arr = a /\ heap'[a] = t
        /\ Stack(m)' = Stack(m) \o ws
        /\ Stack(m)' \in Seq(Middleware)
    BY <1>1, <1>6, <1>7, <2>1, <2>2
  <2>4. \A b \in Arr : Len(heap'[b]) = Len(heap[b]) /\ (heap[b] # <<>> => heap'[b] # <<>>)
    <3> SUFFICES ASSUME NEW b \in Arr
                 PROVE  Len(heap'[b]) = Len(heap[b]) /\ (heap[b] # <<>> => heap'[b] # <<>>)
      OBVIOUS
    <3>1. heap[b] \in Seq(Element) /\ heap'[b] \in Seq(Element)
      BY <2>3 DEF TypeOK, Element
    <3>2. Len(heap'[b]) = Len(heap[b])
      BY <2>1, <2>2, <2>3 DEF TypeOK
    <3> QED
      BY <3>1, <3>2, EmptySeq
  <2>5. ASSUME NEW x \in made \ {m}
        PROVE  /\ Stack(x)' \in Seq(Middleware)
               /\ (mws[x].arr = a => mws[x].len <= n) => Stack(x)' = Stack(x)
    <3>1. mws'[x] = mws[x]
      BY <1>3, <2>3
    <3>2. CASE mws[x].arr # a
      <4>1. heap'[mws[x].arr] = heap[mws[x].arr]
        BY <1>3, <2>2, <3>2 DEF TypeOK
      <4> QED
        BY <1>4, <1>5, <3>1, <4>1
    <3>3. CASE mws[x].arr = a
      <4>1. \A i \in 1 .. mws[x].len : t[i] \in Middleware
        <5> SUFFICES ASSUME NEW i \in 1 .. mws[x].len PROVE t[i] \in Middleware
          OBVIOUS
        <5>1. i \in 1 .. Len(s)
          BY <1>2, <1>3, <3>3
        <5> QED
          BY <1>4, <2>1, <3>3, <5>1
      <4>2. Stack(x)' = [i \in 1 .. mws[x].len |-> t[i]]
        BY <2>3, <3>1, <3>3 DEF Stack
      <4>3. Stack(x)' \in [1 .. mws[x].len -> Middleware] /\ mws[x].len \in Nat
        BY <1>3, <4>1, <4>2
      <4>4. Stack(x)' \in Seq(Middleware)
        BY <4>3, MakeSeq
      <4>5. mws[x].len <= n => \A i \in 1 .. mws[x].len : t[i] = s[i]
        BY <1>1, <1>3, <2>1
      <4>6. mws[x].len <= n => Stack(x)' = Stack(x)
        BY <1>5, <2>3, <3>1, <3>3, <4>5
      <4> QED
        BY <3>3, <4>4, <4>6
    <3> QED
      BY <3>2, <3>3
  <2>6. \A x \in made : mws'[x].len <= Len(heap'[mws'[x].arr]) /\ heap'[mws'[x].arr] # <<>>
    <3> SUFFICES ASSUME NEW x \in made
                 PROVE  mws'[x].len <= Len(heap'[mws'[x].arr]) /\ heap'[mws'[x].arr] # <<>>
      OBVIOUS
    <3>1. CASE x = m
      <4>1. heap[a] # <<>> /\ heap'[a] # <<>>
        BY <1>1, <1>3, <2>4
      <4> QED
        BY <1>7, <2>1, <2>3, <3>1, <4>1
    <3>2. CASE x # m
      <4>1. mws'[x] = mws[x] /\ mws[x].arr \in Arr
        BY <1>3, <2>3, <3>2
      <4> QED
        BY <1>3, <2>4, <4>1
    <3> QED
      BY <3>1, <3>2
  <2> QED
    BY <2>3, <2>5, <2>6
<1>8. CASE ~(after <= Len(s))
  <2> DEFINE t == Grown(s, n, ws)
  <2>1. /\ t \in Seq(Element) /\ after <= Len(t)
        /\ \A i \in 1 .. n : t[i] = s[i]
        /\ \A i \in 1 .. Len(ws) : t[n + i] = ws[i]
    <3>1. s \in Seq(Element) /\ n \in Nat /\ n <= Len(s) /\ after = n + Len(ws)
      BY <1>1
    <3> HIDE DEF s, n, after
    <3> QED
      BY <3>1, GrownFacts
  <2> HIDE DEF t
  <2>2. PICK b \in Arr : /\ heap[b] = <<>>
                         /\ heap' = [heap EXCEPT ![b] = t]
                         /\ mws' = [mws EXCEPT ![m] = [arr |-> b, len |-> after]]
    BY <1>8 DEF AppendTo, t
  <2>3. /\ heap' \in [Arr -> Seq(Element)]
        /\ mws' \in [Mux -> [arr : Arr, len : Nat]]
        /\ \A x \in Mux \ {m} : mws'[x] = mws[x]
        /\ mws'[m].len = after /\ mws'[m].arr = b /\ heap'[b] = t
        /\ Stack(m)' = Stack(m) \o ws
        /\ Stack(m)' \in Seq(Middleware)
    BY <1>6, <2>1, <2>2
  <2>4. \A x \in made : mws[x].arr # b /\ heap'[mws[x].arr] = heap[mws[x].arr]
    BY <1>3, <2>2 DEF TypeOK
  <2>5. \A x \in made \ {m} : Stack(x)' = Stack(x)
    BY <1>3, <1>5, <2>3, <2>4
  <2>6. t # <<>>
    BY <1>1, <1>2, <1>8, <2>1, EmptySeq
  <2>7. ASSUME NEW x \in made
        PROVE  mws'[x].len <= Len(heap'[mws'[x].arr]) /\ heap'[mws'[x].arr] # <<>>
    <3>1. CASE x = m
      BY <2>1, <2>3, <2>6, <3>1
    <3>2. CASE x # m
      <4>1. mws'[x] = mws[x]
        BY <1>3, <2>3, <3>2
      <4> QED
        BY <1>3, <2>4, <4>1
    <3> QED
      BY <3>1, <3>2
  <2> QED
    BY <1>4, <2>3, <2>4, <2>5, <2>7
<1> QED
  BY <1>7, <1>8

\* A call changes only live and nested, and keeps their types.
LEMMA CallType ==
  ASSUME TypeOK, NEW m \in Mux, NEW new, Call(m, new)
  PROVE  /\ m \in made /\ nested' \in BOOLEAN
         /\ live' \subseteq made \cup new
BY DEF Call, TypeOK

\* Copying a mux keeps the types.
LEMMA CopyType ==
  ASSUME TypeOK, NEW m \in Mux, NEW c \in Mux, NEW ws \in Seq(Middleware),
         NEW pattern \in Seq(Token), Copy(m, c, ws, pattern)
  PROVE  TypeOK'
<1>1. m \in made /\ nested' \in BOOLEAN /\ live' \subseteq made'
  BY CallType DEF Copy
<1>2. inline[m] \o ws \in Seq(Middleware)
  BY ConcatProperties DEF TypeOK
<1>3. Join(prefix[m], pattern) \in Seq(Token)
  BY JoinType DEF TypeOK
<1>4. /\ inline' \in [Mux -> Seq(Middleware)] /\ prefix' \in [Mux -> Seq(Token)]
      /\ mws' \in [Mux -> [arr : Arr, len : Nat]] /\ scope' \in [Mux -> Seq(Middleware)]
      /\ depth' \in [Mux -> Nat] /\ made' \subseteq Mux
  <2>1. /\ mws[m] \in [arr : Arr, len : Nat] /\ scope[m] \in Seq(Middleware)
        /\ depth[m] + 1 \in Nat
    <3>1. /\ mws \in [Mux -> [arr : Arr, len : Nat]]
          /\ scope \in [Mux -> Seq(Middleware)] /\ depth \in [Mux -> Nat]
      BY DEF TypeOK
    <3> QED
      BY <3>1
  <2>2. inline' \in [Mux -> Seq(Middleware)] /\ prefix' \in [Mux -> Seq(Token)]
    BY <1>2, <1>3 DEF Copy, TypeOK
  <2>3. mws' \in [Mux -> [arr : Arr, len : Nat]]
    BY <2>1 DEF Copy, TypeOK
  <2>4. scope' \in [Mux -> Seq(Middleware)] /\ depth' \in [Mux -> Nat]
    BY <2>1 DEF Copy, TypeOK
  <2>5. made' \subseteq Mux
    BY DEF Copy, TypeOK
  <2> QED
    BY <2>2, <2>3, <2>4, <2>5
<1>5. ASSUME NEW x \in made'
      PROVE  /\ mws'[x].len <= Len(heap'[mws'[x].arr])
             /\ heap'[mws'[x].arr] # <<>>
             /\ Stack(x)' \in Seq(Middleware)
  <2>1. PICK y \in made : mws'[x] = mws[y]
    <3>1. mws'[c] = mws[m] /\ \A z \in made : mws'[z] = mws[z]
      BY DEF Copy, TypeOK
    <3>2. x = c \/ x \in made
      BY DEF Copy
    <3> QED
      BY <1>1, <3>1, <3>2
  <2>2. Stack(x)' = Stack(y)
    BY <2>1 DEF Copy, Stack
  <2> QED
    BY <2>1, <2>2 DEF Copy, TypeOK
<1>6. /\ \A r \in routes' : KeyOf(r) \in Key
      /\ DOMAIN rules' \subseteq Key /\ \A k \in DOMAIN rules' : rules'[k] \in Schema
      /\ meta' \subseteq Key /\ replaced' \subseteq Key
      /\ heap' \in [Arr -> Seq(Middleware \cup {None})]
  BY DEF Copy, TypeOK
<1> QED
  BY <1>1, <1>4, <1>5, <1>6 DEF TypeOK

\* The options of a registration or an Inject.
Options == [schema : Schema \cup {None}, meta : BOOLEAN]

\* The map of schemas changes at a key only, where it gets the schema if there is
\* one.
Stored(key, schema) ==
  /\ \A k : k # key => GetRules(k)' = GetRules(k)
  /\ schema # None => DOMAIN rules' = DOMAIN rules \cup {key} /\ GetRules(key)' = schema
  /\ schema = None => rules' = rules

\* Storing options changes what is found at one path and method only, where it
\* is their schema if they have one, and keeps the types of the maps.
LEMMA StoreFacts ==
  ASSUME TypeOK, NEW path \in Seq(Token), NEW method \in Method, NEW opts \in Options,
         Store(path, method, opts), NEW key, key = [path |-> path, method |-> method]
  PROVE  /\ key \in Key
         /\ DOMAIN rules' \subseteq Key /\ \A k \in DOMAIN rules' : rules'[k] \in Schema
         /\ meta' \subseteq Key
         /\ Stored(key, opts.schema)
<1>1. key \in Key
  BY DEF Key
<1>2. meta' \subseteq Key
  BY <1>1 DEF Store, SetMeta, TypeOK
<1>3. CASE opts.schema # None
  <2>1. opts.schema \in Schema
    BY <1>3 DEF Options
  <2>2. /\ DOMAIN rules' = DOMAIN rules \cup {key}
        /\ \A k \in DOMAIN rules' : rules'[k] = IF k = key THEN opts.schema ELSE rules[k]
    BY <1>3 DEF Store, SetRules
  <2>3. DOMAIN rules' \subseteq Key /\ \A k \in DOMAIN rules' : rules'[k] \in Schema
    BY <1>1, <2>1, <2>2 DEF TypeOK
  <2>4. Stored(key, opts.schema)
    BY <1>3, <2>2 DEF Stored, GetRules
  <2> QED
    BY <1>1, <1>2, <2>3, <2>4
<1>4. CASE opts.schema = None
  <2>1. rules' = rules
    BY <1>4 DEF Store
  <2> QED
    BY <1>1, <1>2, <1>4, <2>1 DEF TypeOK, Stored, GetRules
<1> QED
  BY <1>3, <1>4

\* Adding a route keeps the types.
LEMMA AddRouteType ==
  ASSUME TypeOK, NEW m \in Mux, NEW method \in Method, NEW path \in Seq(Token),
         NEW given, NEW opts \in Options, NEW static,
         AddRoute(m, method, path, given, opts, static)
  PROVE  TypeOK'
<1> DEFINE full == Join(prefix[m], path)
           key == [path |-> full, method |-> method]
<1>1. full \in Seq(Token)
  BY JoinType DEF TypeOK
<1>2. /\ DOMAIN rules' \subseteq Key /\ \A k \in DOMAIN rules' : rules'[k] \in Schema
      /\ meta' \subseteq Key /\ key \in Key
  <2>1. Store(full, method, opts)
    BY DEF AddRoute
  <2> HIDE DEF full
  <2> QED
    BY <1>1, <2>1, StoreFacts
<1>3. replaced' \subseteq Key
  BY DEF AddRoute, TypeOK
<1>4. \A r \in routes' : KeyOf(r) \in Key
  <2>1. \A r \in routes : KeyOf(r) \in Key
    BY DEF TypeOK
  <2> DEFINE new == [path |-> full, method |-> method, chain |-> Chain(m),
                     schema |-> opts.schema, scope |-> scope[m] \o inline[m],
                     outer |-> outer[m], given |-> given, static |-> static]
  <2>2. routes' = routes \cup {new}
    BY DEF AddRoute
  <2>3. KeyOf(new) = key
    BY DEF KeyOf
  <2> HIDE DEF new, full, key
  <2> QED
    BY <1>2, <2>1, <2>2, <2>3
<1>5. nested' \in BOOLEAN /\ live' \subseteq made'
  BY CallType DEF AddRoute
<1>6. \A x \in made : Stack(x)' = Stack(x)
  BY DEF AddRoute, Stack
<1> QED
  BY <1>2, <1>3, <1>4, <1>5, <1>6 DEF AddRoute, TypeOK

\* Leaving a schema where no route is registered keeps them.
LEMMA LeaveType ==
  ASSUME TypeOK, NEW m \in Mux, NEW method \in Method, NEW path \in Seq(Token),
         NEW opts \in Options, Call(m, {}), Leave(path, method, opts)
  PROVE  TypeOK'
<1> DEFINE key == [path |-> path, method |-> method]
<1>1. /\ DOMAIN rules' \subseteq Key /\ \A k \in DOMAIN rules' : rules'[k] \in Schema
      /\ meta' \subseteq Key /\ key \in Key
  BY StoreFacts DEF Leave
<1>2. replaced' \subseteq Key
  BY <1>1 DEF Leave, TypeOK
<1>3. nested' \in BOOLEAN /\ live' \subseteq made'
  BY CallType DEF Leave
<1>4. \A x \in made : Stack(x)' = Stack(x)
  BY DEF Leave, Stack
<1>5. \A r \in routes' : KeyOf(r) \in Key
  BY DEF Leave, TypeOK
<1> QED
  BY <1>1, <1>2, <1>3, <1>4, <1>5 DEF Leave, TypeOK

\* The first state has the right types.
LEMMA InitType == Init => TypeOK
<1> SUFFICES ASSUME Init PROVE TypeOK
  OBVIOUS
<1>1. [i \in 1 .. InitCap |-> None] \in Seq(Element) /\ Len([i \in 1 .. InitCap |-> None]) = InitCap
  <2>1. [i \in 1 .. InitCap |-> None] \in [1 .. InitCap -> Element]
    BY DEF Element
  <2> QED
    BY <2>1, MakeSeq
<1>2. heap \in [Arr -> Seq(Middleware \cup {None})]
  BY <1>1 DEF Init, Element
<1>3. [i \in 1 .. InitCap |-> None] # <<>>
  BY <1>1, EmptySeq
<1>4. \A m \in made : /\ mws[m].len <= Len(heap[mws[m].arr])
                      /\ heap[mws[m].arr] # <<>>
                      /\ Stack(m) \in Seq(Middleware)
  <2>1. \A m \in made : mws[m].arr = First /\ mws[m].len = 0
    BY DEF Init
  <2>2. \A m \in made : Stack(m) = <<>>
    BY <2>1 DEF Stack
  <2> QED
    BY <1>1, <1>3, <2>1, <2>2 DEF Init
<1> QED
  BY <1>2, <1>4 DEF Init, TypeOK

\* Every step keeps them.
LEMMA NextType == TypeOK /\ [Next]_vars => TypeOK'
<1> SUFFICES ASSUME TypeOK, [Next]_vars PROVE TypeOK'
  OBVIOUS
<1>1. ASSUME NEW m \in Mux, NEW ws \in Batch, Use(m, ws) PROVE TypeOK'
  <2>1. m \in made /\ nested' \in BOOLEAN /\ live' \subseteq made'
    BY <1>1, CallType DEF Use
  <2>2. ws \in Seq(Middleware)
    OBVIOUS
  <2>3. /\ heap' \in [Arr -> Seq(Element)]
        /\ mws' \in [Mux -> [arr : Arr, len : Nat]]
        /\ \A x \in made : /\ mws'[x].len <= Len(heap'[mws'[x].arr])
                           /\ heap'[mws'[x].arr] # <<>>
                           /\ Stack(x)' \in Seq(Middleware)
    BY <1>1, <2>1, <2>2, AppendFacts DEF Use
  <2>4. scope[m] \o ws \in Seq(Middleware)
    BY <2>2, ConcatProperties DEF TypeOK
  <2>5. scope' \in [Mux -> Seq(Middleware)]
    BY <1>1, <2>4 DEF Use, TypeOK
  <2> QED
    BY <1>1, <2>1, <2>3, <2>5 DEF Use, TypeOK, Element
<1> <<>> \in Seq(Middleware) /\ <<>> \in Seq(Token) /\ Inline \subseteq Seq(Middleware)
  BY EmptySeq
<1>2. ASSUME NEW m \in Mux, NEW c \in Mux, Group(m, c) PROVE TypeOK'
  BY <1>2, CopyType DEF Group
<1>3. ASSUME NEW m \in Mux, NEW c \in Mux, NEW ws \in Inline, With(m, c, ws) PROVE TypeOK'
  BY <1>3, CopyType DEF With
<1>4. ASSUME NEW m \in Mux, NEW c \in Mux, NEW p \in Prefix, Route(m, c, p) PROVE TypeOK'
  BY <1>4, CopyType DEF Route
<1>5. ASSUME NEW m \in Mux, NEW p \in Given, Static(m, p) PROVE TypeOK'
  <2>1. <<"/", "*filepath">> \in Seq(Token)
    OBVIOUS
  <2>2. Join(Join(prefix[m], p), <<"/", "*filepath">>) \in Seq(Token)
    BY <2>1, JoinType DEF TypeOK
  <2> QED
    BY <1>5, <2>2, AddRouteType DEF Static, Options
<1>6. ASSUME NEW m \in Mux, NEW method \in Method, NEW p \in Given, NEW opts \in Opts,
             Register(m, method, p, opts)
      PROVE  TypeOK'
  BY <1>6, OptsAssumption, AddRouteType DEF Register, Options
<1>7. ASSUME NEW m \in Mux, NEW method \in Method, NEW p \in Given, NEW opts \in Opts,
             RegisterTwice(m, method, p, opts) \/ Inject(m, method, p, opts)
      PROVE  TypeOK'
  <2>1. PICK path \in Seq(Token) : Leave(path, method, opts)
    <3>1. Join(prefix[m], p) \in Seq(Token)
      BY JoinType DEF TypeOK
    <3> QED
      BY <1>7, <3>1 DEF RegisterTwice, Inject
  <2>2. Call(m, {}) /\ opts \in Options
    BY <1>7, OptsAssumption DEF RegisterTwice, Inject, Options
  <2> QED
    BY <2>1, <2>2, LeaveType
<1>8. CASE UNCHANGED vars
  BY <1>8 DEF vars, TypeOK, Stack, Key, KeyOf
<1> QED
  BY <1>1, <1>2, <1>3, <1>4, <1>5, <1>6, <1>7, <1>8 DEF Next

\* Type correctness of Router, including that each stack lies within its array
\* and holds middlewares only.
THEOREM TypeCorrect == Spec => []TypeOK
<1> QED
  BY InitType, NextType, PTL DEF Spec

-----------------------------------------------------------------------------
(* Schemas                                                                 *)

\* A schema is where a route is, or where one was left.
Known == \A k \in DOMAIN rules : k \in replaced \/ \E r \in routes : KeyOf(r) = k

RulesInv == TypeOK /\ Known /\ RulesKept

\* A new route has the schema it is registered with, or none as nothing was left
\* for it, and takes nothing from the others.
LEMMA AddRouteRules ==
  ASSUME RulesInv, NEW m \in Mux, NEW method \in Method, NEW path \in Seq(Token), NEW given,
         NEW opts \in Options, NEW static, AddRoute(m, method, path, given, opts, static)
  PROVE  Known' /\ RulesKept'
<1>1. PICK full, key, new :
        /\ full = Join(prefix[m], path) /\ key = [path |-> full, method |-> method]
        /\ new = [path |-> full, method |-> method, chain |-> Chain(m),
                  schema |-> opts.schema, scope |-> scope[m] \o inline[m],
                  outer |-> outer[m], given |-> given, static |-> static]
  OBVIOUS
<1>2. /\ Store(full, method, opts) /\ routes' = routes \cup {new}
      /\ \A r \in routes : KeyOf(r) # key
      /\ replaced' = IF opts.schema # None THEN replaced \ {key} ELSE replaced
  BY <1>1 DEF AddRoute
<1>3. full \in Seq(Token) /\ KeyOf(new) = key /\ new.schema = opts.schema
  <2>1. full \in Seq(Token)
    BY <1>1, JoinType DEF RulesInv, TypeOK
  <2> QED
    BY <1>1, <2>1 DEF KeyOf
<1>4. Stored(key, opts.schema)
  BY <1>1, <1>2, <1>3, StoreFacts DEF RulesInv
<1>5. Known'
  <2>1. ASSUME NEW k \in DOMAIN rules', k # key
        PROVE  k \in replaced' \/ \E r \in routes' : KeyOf(r) = k
    <3>1. k \in DOMAIN rules
      BY <1>4, <2>1 DEF Stored
    <3>2. k \in replaced \/ \E r \in routes : KeyOf(r) = k
      BY <3>1 DEF RulesInv, Known
    <3> QED
      BY <1>2, <2>1, <3>2
  <2>2. \E r \in routes' : KeyOf(r) = key
    BY <1>2, <1>3
  <2> QED
    BY <2>1, <2>2 DEF Known
<1>6. ASSUME NEW r \in routes, KeyOf(r) \notin replaced' PROVE GetRules(KeyOf(r))' = r.schema
  <2>1. KeyOf(r) # key /\ KeyOf(r) \notin replaced
    BY <1>2, <1>6
  <2>2. GetRules(KeyOf(r)) = r.schema
    BY <2>1 DEF RulesInv, RulesKept
  <2> QED
    BY <1>4, <2>1, <2>2 DEF Stored
<1>7. ASSUME key \notin replaced' PROVE GetRules(key)' = opts.schema
  <2>1. CASE opts.schema = None
    <3>1. key \notin DOMAIN rules
      BY <1>2, <1>7, <2>1 DEF RulesInv, Known
    <3> QED
      BY <1>4, <2>1, <3>1 DEF Stored, GetRules
  <2> QED
    BY <1>4, <2>1 DEF Stored
<1>8. RulesKept'
  BY <1>2, <1>3, <1>6, <1>7 DEF RulesKept
<1> QED
  BY <1>5, <1>8

\* A schema that is left changes what is found for its own path and method only,
\* which are then known to have one left.
LEMMA LeaveRules ==
  ASSUME RulesInv, NEW method \in Method, NEW path \in Seq(Token), NEW opts \in Options,
         Leave(path, method, opts)
  PROVE  Known' /\ RulesKept'
<1>1. PICK key : key = [path |-> path, method |-> method]
  OBVIOUS
<1>2. /\ Store(path, method, opts) /\ routes' = routes
      /\ replaced' = IF opts.schema # None THEN replaced \cup {key} ELSE replaced
  BY <1>1 DEF Leave
<1>3. Stored(key, opts.schema)
  BY <1>1, <1>2, StoreFacts DEF RulesInv
<1>4. Known'
  BY <1>2, <1>3 DEF RulesInv, Known, Stored
<1>5. ASSUME NEW r \in routes, KeyOf(r) \notin replaced' PROVE GetRules(KeyOf(r))' = r.schema
  <2>1. GetRules(KeyOf(r)) = r.schema
    BY <1>2, <1>5 DEF RulesInv, RulesKept
  <2>2. CASE opts.schema = None
    BY <1>3, <2>1, <2>2 DEF Stored, GetRules
  <2>3. CASE opts.schema # None
    <3>1. KeyOf(r) # key
      BY <1>2, <1>5, <2>3
    <3> QED
      BY <1>3, <2>1, <3>1 DEF Stored
  <2> QED
    BY <2>2, <2>3
<1>6. RulesKept'
  BY <1>2, <1>5 DEF RulesKept
<1> QED
  BY <1>4, <1>6

\* Every step keeps the invariant.
LEMMA NextRules == RulesInv /\ [Next]_vars => RulesInv'
<1> SUFFICES ASSUME RulesInv, [Next]_vars PROVE RulesInv'
  OBVIOUS
<1>1. TypeOK'
  BY NextType DEF RulesInv
<1>2. ASSUME UNCHANGED <<routes, rules, replaced>> PROVE Known' /\ RulesKept'
  BY <1>2 DEF RulesInv, Known, RulesKept, GetRules
<1>3. ASSUME NEW m \in Mux, NEW ws, Use(m, ws) PROVE Known' /\ RulesKept'
  BY <1>2, <1>3 DEF Use
<1>4. ASSUME NEW m \in Mux, NEW c \in Mux, NEW ws, NEW pattern, Copy(m, c, ws, pattern)
      PROVE  Known' /\ RulesKept'
  BY <1>2, <1>4 DEF Copy
<1>5. ASSUME NEW m \in Mux, NEW p \in Given, Static(m, p) PROVE Known' /\ RulesKept'
  <2>1. <<"/", "*filepath">> \in Seq(Token)
    OBVIOUS
  <2>2. Join(Join(prefix[m], p), <<"/", "*filepath">>) \in Seq(Token)
    BY <2>1, JoinType DEF RulesInv, TypeOK
  <2> QED
    BY <1>5, <2>2, AddRouteRules DEF Static, Options
<1>6. ASSUME NEW m \in Mux, NEW method \in Method, NEW p \in Given, NEW opts \in Opts,
             Register(m, method, p, opts)
      PROVE  Known' /\ RulesKept'
  BY <1>6, OptsAssumption, AddRouteRules DEF Register, Options
<1>7. ASSUME NEW m \in Mux, NEW method \in Method, NEW p \in Given, NEW opts \in Opts,
             RegisterTwice(m, method, p, opts) \/ Inject(m, method, p, opts)
      PROVE  Known' /\ RulesKept'
  <2>1. PICK path \in Seq(Token) : Leave(path, method, opts)
    <3>1. Join(prefix[m], p) \in Seq(Token)
      BY JoinType DEF RulesInv, TypeOK
    <3> QED
      BY <1>7, <3>1 DEF RegisterTwice, Inject
  <2>2. opts \in Options
    BY OptsAssumption DEF Options
  <2> QED
    BY <2>1, <2>2, LeaveRules
<1>8. ASSUME UNCHANGED vars PROVE Known' /\ RulesKept'
  BY <1>2, <1>8 DEF vars
<1>9. ASSUME NEW m \in Mux, NEW c \in Mux,
             \/ Group(m, c)
             \/ \E ws \in Inline : With(m, c, ws)
             \/ \E p \in Prefix : Route(m, c, p)
      PROVE  Known' /\ RulesKept'
  BY <1>4, <1>9 DEF Group, With, Route
<1>10. Known' /\ RulesKept'
  BY <1>3, <1>5, <1>6, <1>7, <1>8, <1>9 DEF Next
<1> QED
  BY <1>1, <1>10 DEF RulesInv

\* A route is found with the schema it was registered with, and with none if it
\* has none, whatever is registered or injected later elsewhere, for any number
\* of muxes, routes, paths and schemas.
THEOREM RulesStay == Spec => []RulesKept
<1>1. Init => RulesInv
  <2> SUFFICES ASSUME Init PROVE RulesInv
    OBVIOUS
  <2>1. routes = {} /\ DOMAIN rules = {}
    BY DEF Init
  <2> QED
    BY <2>1, InitType DEF RulesInv, Known, RulesKept
<1>2. RulesInv => RulesKept
  BY DEF RulesInv
<1> QED
  BY <1>1, <1>2, NextRules, PTL DEF Spec

-----------------------------------------------------------------------------
(* Scopes                                                                  *)

\* The live muxes of a nested program enclose one another, one at each depth, and
\* of two that share an array the outer one has the shorter stack: so only the
\* innermost one, whose Use may write, can reach beyond another's stack.
Enclosed ==
  nested =>
    /\ \A x, y \in live : depth[x] = depth[y] => x = y
    /\ \A x, y \in live :
         depth[x] <= depth[y] /\ mws[x].arr = mws[y].arr => mws[x].len <= mws[y].len

Inv == TypeOK /\ Enclosed /\ BlockScoped

\* Use writes behind the stacks of all muxes that stay live.
LEMMA UseScoped ==
  ASSUME Inv, NEW m \in Mux, NEW ws \in Seq(Middleware), Use(m, ws)
  PROVE  Enclosed' /\ BlockScoped'
<1> SUFFICES ASSUME nested' PROVE Enclosed' /\ BlockScoped'
  BY DEF Enclosed, BlockScoped
<1>1. /\ nested /\ m \in live /\ live' = {x \in live : depth[x] <= depth[m]}
      /\ m \in made /\ live \subseteq made /\ made \subseteq Mux
      /\ scope' = [scope EXCEPT ![m] = @ \o ws]
      /\ routes' = routes /\ depth' = depth
  BY DEF Use, Call, Inv, TypeOK
<1>2. /\ \A x \in Mux \ {m} : mws'[x] = mws[x]
      /\ mws'[m].len = mws[m].len + Len(ws)
      /\ \/ mws'[m].arr = mws[m].arr
         \/ \A x \in made : mws[x].arr # mws'[m].arr
      /\ Stack(m)' = Stack(m) \o ws
      /\ \A x \in made \ {m} :
           (mws[x].arr = mws[m].arr => mws[x].len <= mws[m].len) => Stack(x)' = Stack(x)
  BY <1>1, AppendFacts DEF Use, Inv
<1>3. /\ \A x, y \in live : depth[x] = depth[y] => x = y
      /\ \A x, y \in live :
           depth[x] <= depth[y] /\ mws[x].arr = mws[y].arr => mws[x].len <= mws[y].len
  BY <1>1 DEF Inv, Enclosed
<1>4. \A x \in live : x \in Mux /\ mws[x].len \in Nat /\ depth[x] \in Nat
  BY <1>1 DEF Inv, TypeOK
<1>5. Len(ws) \in Nat
  BY LenProperties
<1>6. ASSUME NEW x \in live', NEW y \in live', depth[x] <= depth[y], mws'[x].arr = mws'[y].arr
      PROVE  mws'[x].len <= mws'[y].len
  <2>1. x \in live /\ y \in live /\ depth[x] <= depth[m] /\ depth[y] <= depth[m]
    BY <1>1
  <2>2. CASE x = m
    <3>1. depth[y] = depth[m]
      BY <1>4, <1>6, <2>1, <2>2
    <3>2. x = y
      BY <1>1, <1>3, <2>1, <2>2, <3>1
    <3>3. mws'[m].len \in Nat
      BY <1>1, <1>2, <1>4, <1>5
    <3> QED
      BY <2>2, <3>2, <3>3
  <2>3. CASE x # m /\ y = m
    <3>1. mws'[x] = mws[x]
      BY <1>2, <1>4, <2>1, <2>3
    <3>2. mws[x].arr = mws[m].arr
      BY <1>1, <1>2, <1>6, <2>1, <2>3, <3>1
    <3>3. mws[x].len <= mws[m].len
      BY <1>1, <1>3, <2>1, <3>2
    <3> QED
      BY <1>1, <1>2, <1>4, <1>5, <2>1, <2>3, <3>1, <3>3
  <2>4. CASE x # m /\ y # m
    BY <1>2, <1>3, <1>4, <1>6, <2>1, <2>4
  <2> QED
    BY <2>2, <2>3, <2>4
<1>7. Enclosed'
  BY <1>1, <1>3, <1>6 DEF Enclosed
<1>8. ASSUME NEW x \in live' PROVE Stack(x)' = scope'[x]
  <2>1. x \in live /\ depth[x] <= depth[m] /\ Stack(x) = scope[x]
    BY <1>1 DEF Inv, BlockScoped
  <2>2. CASE x = m
    BY <1>1, <1>2, <2>1, <2>2 DEF Inv, TypeOK
  <2>3. CASE x # m
    <3>1. mws[x].arr = mws[m].arr => mws[x].len <= mws[m].len
      BY <1>1, <1>3, <2>1
    <3> QED
      BY <1>1, <1>2, <2>1, <2>3, <3>1 DEF Inv, TypeOK
  <2> QED
    BY <2>2, <2>3
<1>9. \A r \in routes' : r.chain = r.scope
  BY <1>1 DEF Inv, BlockScoped
<1> QED
  BY <1>7, <1>8, <1>9 DEF BlockScoped

\* A new mux is enclosed by all that stay live, and begins with its parent's stack.
LEMMA CopyScoped ==
  ASSUME Inv, NEW m \in Mux, NEW c \in Mux, NEW ws, NEW pattern, Copy(m, c, ws, pattern)
  PROVE  Enclosed' /\ BlockScoped'
<1> SUFFICES ASSUME nested' PROVE Enclosed' /\ BlockScoped'
  BY DEF Enclosed, BlockScoped
<1>1. /\ nested /\ m \in live /\ live' = {x \in live : depth[x] <= depth[m]} \cup {c}
      /\ m \in made /\ live \subseteq made /\ c \notin made /\ made \subseteq Mux
      /\ heap' = heap /\ routes' = routes
  BY DEF Copy, Call, Inv, TypeOK
<1>2. /\ mws'[c] = mws[m] /\ scope'[c] = scope[m] /\ depth'[c] = depth[m] + 1
      /\ \A x \in live : mws'[x] = mws[x] /\ scope'[x] = scope[x] /\ depth'[x] = depth[x]
  BY <1>1 DEF Copy, Inv, TypeOK
<1>3. \A x \in live : mws[x].len \in Nat /\ depth[x] \in Nat
  BY <1>1 DEF Inv, TypeOK
<1>4. /\ \A x, y \in live : depth[x] = depth[y] => x = y
      /\ \A x, y \in live :
           depth[x] <= depth[y] /\ mws[x].arr = mws[y].arr => mws[x].len <= mws[y].len
  BY <1>1 DEF Inv, Enclosed
<1>5. \A x \in live' \ {c} : x \in live /\ depth[x] <= depth[m]
  BY <1>1
<1>6. ASSUME NEW x \in live', NEW y \in live'
      PROVE  /\ depth'[x] = depth'[y] => x = y
             /\ depth'[x] <= depth'[y] /\ mws'[x].arr = mws'[y].arr => mws'[x].len <= mws'[y].len
  <2>1. CASE x = c /\ y = c
    BY <1>1, <1>2, <1>3, <2>1
  <2>2. CASE x = c /\ y # c
    <3>1. depth'[x] > depth'[y]
      BY <1>1, <1>2, <1>3, <1>5, <2>2
    <3>2. depth'[x] \in Nat /\ depth'[y] \in Nat
      BY <1>1, <1>2, <1>3, <1>5, <2>2
    <3> QED
      BY <3>1, <3>2
  <2>3. CASE x # c /\ y = c
    BY <1>1, <1>2, <1>3, <1>4, <1>5, <2>3
  <2>4. CASE x # c /\ y # c
    BY <1>2, <1>4, <1>5, <2>4
  <2> QED
    BY <2>1, <2>2, <2>3, <2>4
<1>7. Enclosed'
  BY <1>6 DEF Enclosed
<1>8. ASSUME NEW x \in live' PROVE Stack(x)' = scope'[x]
  <2>1. PICK y \in live : mws'[x] = mws[y] /\ scope'[x] = scope[y]
    BY <1>1, <1>2, <1>5
  <2>2. Stack(x)' = Stack(y)
    BY <1>1, <2>1 DEF Stack
  <2> QED
    BY <1>1, <2>1, <2>2 DEF Inv, BlockScoped
<1> QED
  BY <1>1, <1>7, <1>8 DEF Inv, BlockScoped

\* A call that leaves the muxes as they are keeps what was known of the live ones.
LEMMA CallScoped ==
  ASSUME Inv, NEW m \in Mux, Call(m, {}), UNCHANGED <<heap, mws, scope, depth>>, nested'
  PROVE  /\ nested /\ m \in live /\ Enclosed'
         /\ \A x \in live' : Stack(x)' = scope'[x]
<1>1. nested /\ m \in live /\ live' \subseteq live
  BY DEF Call
<1>2. Enclosed'
  BY <1>1 DEF Inv, Enclosed
<1>3. \A x \in live' : Stack(x)' = scope'[x]
  BY <1>1 DEF Inv, BlockScoped, Stack
<1> QED
  BY <1>1, <1>2, <1>3

\* A route gets the chain of a live mux, which is its scope.
LEMMA AddRouteScoped ==
  ASSUME Inv, NEW m \in Mux, NEW method, NEW path, NEW given, NEW opts,
         NEW static, AddRoute(m, method, path, given, opts, static)
  PROVE  Enclosed' /\ BlockScoped'
<1> SUFFICES ASSUME nested' PROVE Enclosed' /\ BlockScoped'
  BY DEF Enclosed, BlockScoped
<1>1. /\ nested /\ m \in live /\ Enclosed'
      /\ \A x \in live' : Stack(x)' = scope'[x]
  BY CallScoped DEF AddRoute
<1>2. Stack(m) = scope[m]
  BY <1>1 DEF Inv, BlockScoped
<1>3. ASSUME NEW r \in routes' PROVE r.chain = r.scope
  <2>1. CASE r \in routes
    BY <1>1, <2>1 DEF Inv, BlockScoped
  <2>2. CASE r \notin routes
    <3>1. PICK full, blocks :
            r = [path |-> full, method |-> method, chain |-> Chain(m), schema |-> opts.schema,
                 scope |-> scope[m] \o inline[m], outer |-> blocks, given |-> given,
                 static |-> static]
      BY <1>3, <2>2, Zenon DEF AddRoute
    <3>2. r.chain = Chain(m) /\ r.scope = scope[m] \o inline[m]
      BY <3>1
    <3> QED
      BY <1>2, <3>2 DEF Chain
  <2> QED
    BY <2>1, <2>2
<1> QED
  BY <1>1, <1>3 DEF BlockScoped

\* Every step keeps the invariant.
LEMMA NextInv == Inv /\ [Next]_vars => Inv'
<1> SUFFICES ASSUME Inv, [Next]_vars PROVE Inv'
  OBVIOUS
<1> TypeOK'
  BY NextType DEF Inv
<1>1. ASSUME NEW m \in Mux, NEW ws \in Batch, Use(m, ws) PROVE Enclosed' /\ BlockScoped'
  <2>1. ws \in Seq(Middleware)
    OBVIOUS
  <2> QED
    BY <1>1, <2>1, UseScoped
<1>2. ASSUME NEW m \in Mux, NEW c \in Mux, NEW ws, NEW pattern, Copy(m, c, ws, pattern)
      PROVE  Enclosed' /\ BlockScoped'
  BY <1>2, CopyScoped
<1>3. ASSUME NEW m \in Mux, NEW method, NEW path, NEW given, NEW opts, NEW static,
             AddRoute(m, method, path, given, opts, static)
      PROVE  Enclosed' /\ BlockScoped'
  BY <1>3, AddRouteScoped
<1>4. ASSUME NEW m \in Mux, NEW method, NEW path, NEW opts,
             Call(m, {}), Leave(path, method, opts)
      PROVE  Enclosed' /\ BlockScoped'
  <2> SUFFICES ASSUME nested' PROVE Enclosed' /\ BlockScoped'
    BY DEF Enclosed, BlockScoped
  <2>1. /\ nested /\ Enclosed'
        /\ \A x \in live' : Stack(x)' = scope'[x]
    BY <1>4, CallScoped DEF Leave
  <2> QED
    BY <1>4, <2>1 DEF Leave, Inv, BlockScoped
<1>5. CASE UNCHANGED vars
  BY <1>5 DEF vars, Inv, Enclosed, BlockScoped, Stack
<1>6. ASSUME NEW m \in Mux, NEW method, NEW p, NEW opts,
             RegisterTwice(m, method, p, opts) \/ Inject(m, method, p, opts)
      PROVE  Enclosed' /\ BlockScoped'
  BY <1>4, <1>6 DEF RegisterTwice, Inject
<1> QED
  BY <1>1, <1>2, <1>3, <1>5, <1>6 DEF Inv, Next, Group, With, Route, Static, Register

\* As long as blocks are nested, every route runs the middlewares of the blocks
\* around it, in order, whatever the capacities of the arrays the muxes share.
THEOREM BlocksScoped == Spec => []BlockScoped
<1>1. Init => Inv
  <2> SUFFICES ASSUME Init PROVE Enclosed /\ BlockScoped
    BY InitType DEF Inv
  <2>1. live = {Root} /\ mws[Root].len = 0 /\ scope[Root] = <<>> /\ routes = {}
    BY DEF Init
  <2>2. Stack(Root) = <<>>
    BY <2>1 DEF Stack
  <2> QED
    BY <2>1, <2>2 DEF Enclosed, BlockScoped
<1>2. Inv => BlockScoped
  BY DEF Inv
<1> QED
  BY <1>1, <1>2, NextInv, PTL DEF Spec

-----------------------------------------------------------------------------
(* Names of paths                                                          *)

\* A set of numbers has a least one.
LEMMA Least ==
  ASSUME NEW T \in SUBSET Nat, T # {}
  PROVE  \E n \in T : \A m \in T : n <= m
<1> DEFINE R == OpToRel(<, Nat)
<1>1. IsWellFoundedOn(R, Nat)
  BY NatLessThanWellFounded
<1>2. \A m, n \in Nat : m < n => <<m, n>> \in R
  BY DEF OpToRel
<1> HIDE DEF R
<1>3. PICK n \in T : \A m \in T : <<m, n>> \notin R
  BY <1>1, WFMin
<1>4. ASSUME NEW m \in T PROVE n <= m
  <2>1. m \in Nat /\ n \in Nat /\ ~(m < n)
    BY <1>2, <1>3
  <2> QED
    BY <2>1
<1> QED
  BY <1>3, <1>4

\* Induction over the numbers, for the set S of those that have the property.
LEMMA SetInduction ==
  ASSUME NEW S, 0 \in S, \A n \in Nat : n \in S => n + 1 \in S
  PROVE  Nat \subseteq S
<1> SUFFICES ASSUME Nat \ S # {} PROVE FALSE
  OBVIOUS
<1>1. PICK n \in Nat \ S : \A m \in Nat \ S : n <= m
  BY Least
<1>2. n - 1 \in Nat /\ n = (n - 1) + 1
  BY <1>1
<1> QED
  BY <1>1, <1>2

\* The names up to element i, given those before it.
Step(path, i, names) ==
  IF i = 0 THEN <<>> ELSE IF path[i] = "/" THEN names ELSE Append(names, path[i])

\* NamesIn is what its recursive definition says.
LEMMA NamesUnfold ==
  ASSUME NEW path
  PROVE  \A i \in Nat : NamesIn(path)[i] = Step(path, i, NamesIn(path)[i - 1])
<1> DEFINE F(i, names) == Step(path, i, names)
           Solves(g, n) == g = [i \in 0 .. n |-> F(i, g[i - 1])]
           Good == {n \in Nat : \E g : Solves(g, n)}
<1>1. \A x, y : F(0, x) = F(0, y)
  BY DEF Step
<1>2. NamesIn(path) = CHOOSE names : names = [i \in Nat |-> F(i, names[i - 1])]
  BY DEF NamesIn, Step
<1> HIDE DEF F
<1>3. Nat \subseteq Good
  <2>1. 0 \in Good
    <3> DEFINE g == [i \in 0 .. 0 |-> F(0, 0)]
    <3>1. \A i \in 0 .. 0 : F(i, g[i - 1]) = F(0, 0)
      BY <1>1
    <3>2. Solves(g, 0)
      BY <3>1
    <3> QED
      BY <3>2
  <2>2. ASSUME NEW n \in Nat, n \in Good PROVE n + 1 \in Good
    <3>1. PICK g : Solves(g, n)
      BY <2>2
    <3> DEFINE h == [i \in 0 .. n + 1 |-> IF i = n + 1 THEN F(n + 1, g[n]) ELSE g[i]]
    <3>2. \A i \in 0 .. n : h[i] = g[i] /\ g[i] = F(i, g[i - 1])
      BY <3>1
    <3>3. ASSUME NEW i \in 0 .. n + 1 PROVE h[i] = F(i, h[i - 1])
      <4>1. CASE i = 0
        BY <1>1, <3>2, <4>1
      <4>2. CASE i \in 1 .. n
        <5>1. i - 1 \in 0 .. n /\ i \in 0 .. n
          BY <4>2
        <5> QED
          BY <3>2, <5>1
      <4>3. CASE i = n + 1
        <5>1. h[n] = g[n] /\ (n + 1) - 1 = n /\ h[n + 1] = F(n + 1, g[n])
          BY <3>2
        <5> QED
          BY <4>3, <5>1
      <4> QED
        BY <4>1, <4>2, <4>3
    <3>4. Solves(h, n + 1)
      BY <3>3
    <3> HIDE DEF h, Solves
    <3> QED
      BY <3>4
  <2> HIDE DEF Good
  <2> QED
    BY <2>1, <2>2, SetInduction
<1>4. ASSUME NEW g, NEW h, NEW n \in Nat, NEW k \in Nat, Solves(g, n), Solves(h, k), n <= k
      PROVE  g[n] = h[n]
  <2> DEFINE Same == {i \in Nat : i <= n => g[i] = h[i]}
  <2>1. 0 \in Same
    <3>1. 0 \in 0 .. n /\ 0 \in 0 .. k
      OBVIOUS
    <3>2. g[0] = F(0, g[0 - 1]) /\ h[0] = F(0, h[0 - 1])
      BY <1>4, <3>1
    <3> QED
      BY <1>1, <3>2
  <2>2. ASSUME NEW i \in Nat, i \in Same PROVE i + 1 \in Same
    <3> SUFFICES ASSUME i + 1 <= n PROVE g[i + 1] = h[i + 1]
      OBVIOUS
    <3>1. i + 1 \in 0 .. n /\ i + 1 \in 0 .. k /\ (i + 1) - 1 = i
      BY <1>4
    <3>2. g[i + 1] = F(i + 1, g[i]) /\ h[i + 1] = F(i + 1, h[i])
      BY <1>4, <3>1
    <3> QED
      BY <2>2, <3>1, <3>2
  <2> HIDE DEF Same
  <2>3. n \in Same
    BY <2>1, <2>2, SetInduction
  <2> QED
    BY <2>3 DEF Same
<1> DEFINE Sol(n) == CHOOSE g : Solves(g, n)
           f == [i \in Nat |-> Sol(i)[i]]
<1>5. \A n \in Nat : Solves(Sol(n), n)
  BY <1>3
<1>6. ASSUME NEW n \in Nat PROVE Sol(n)[n] = F(n, f[n - 1])
  <2> HIDE DEF Sol
  <2>1. Sol(n)[n] = F(n, Sol(n)[n - 1])
    <3>1. Sol(n) = [i \in 0 .. n |-> F(i, Sol(n)[i - 1])]
      BY <1>5
    <3>2. n \in 0 .. n
      OBVIOUS
    <3> QED
      BY <3>1, <3>2, Zenon
  <2>2. CASE n = 0
    BY <1>1, <2>1, <2>2
  <2>3. CASE n # 0
    <3>1. n - 1 \in Nat /\ n - 1 <= n
      BY <2>3
    <3> HIDE DEF Solves
    <3>2. Sol(n - 1)[n - 1] = Sol(n)[n - 1]
      BY <1>4, <1>5, <3>1
    <3>3. f[n - 1] = Sol(n - 1)[n - 1]
      BY <3>1
    <3> QED
      BY <2>1, <3>2, <3>3
  <2> QED
    BY <2>2, <2>3
<1>7. f = [i \in Nat |-> F(i, f[i - 1])]
  <2> HIDE DEF Sol
  <2> QED
    BY <1>6, Zenon
<1> HIDE DEF f
<1>8. NamesIn(path) = [i \in Nat |-> F(i, NamesIn(path)[i - 1])]
  BY <1>2, <1>7
<1>9. \A i \in Nat : NamesIn(path)[i] = F(i, NamesIn(path)[i - 1])
  BY <1>8
<1> QED
  BY <1>9 DEF F

\* There are none before the first element.
LEMMA NamesStart ==
  ASSUME NEW path
  PROVE  NamesIn(path)[0] = <<>>
<1>1. NamesIn(path)[0] = Step(path, 0, NamesIn(path)[0 - 1])
  BY NamesUnfold
<1> QED
  BY <1>1 DEF Step

\* The names up to the next element.
LEMMA NamesStep ==
  ASSUME NEW path, NEW i \in Nat
  PROVE  NamesIn(path)[i + 1] = IF path[i + 1] = "/" THEN NamesIn(path)[i]
                                ELSE Append(NamesIn(path)[i], path[i + 1])
<1>1. (i + 1) - 1 = i /\ i + 1 # 0 /\ i + 1 \in Nat
  OBVIOUS
<1>2. NamesIn(path)[i + 1] = Step(path, i + 1, NamesIn(path)[i])
  BY <1>1, NamesUnfold
<1> QED
  BY <1>1, <1>2 DEF Step

LEMMA NamesType ==
  ASSUME NEW path \in Seq(Token), NEW n \in 0 .. Len(path)
  PROVE  NamesIn(path)[n] \in Seq(Token)
<1> DEFINE S == {i \in Nat : i <= Len(path) => NamesIn(path)[i] \in Seq(Token)}
<1>1. 0 \in S
  <2>1. NamesIn(path)[0] = <<>> /\ <<>> \in Seq(Token)
    BY NamesStart
  <2> QED
    BY <2>1
<1>2. ASSUME NEW i \in Nat, i \in S PROVE i + 1 \in S
  <2> SUFFICES ASSUME i + 1 <= Len(path) PROVE NamesIn(path)[i + 1] \in Seq(Token)
    OBVIOUS
  <2>1. path[i + 1] \in Token /\ NamesIn(path)[i] \in Seq(Token)
    BY <1>2
  <2>2. Append(NamesIn(path)[i], path[i + 1]) \in Seq(Token)
    BY <2>1
  <2> QED
    BY <2>1, <2>2, NamesStep
<1> HIDE DEF S
<1>3. n \in S
  BY <1>1, <1>2, SetInduction
<1> QED
  BY <1>3 DEF S

LEMMA NamesSeq ==
  ASSUME NEW path \in Seq(Token)
  PROVE  Names(path) \in Seq(Token)
<1>1. Len(path) \in 0 .. Len(path)
  OBVIOUS
<1> QED
  BY <1>1, NamesType DEF Names

LEMMA Associative ==
  ASSUME NEW s \in Seq(Token), NEW t \in Seq(Token), NEW u \in Seq(Token)
  PROVE  (s \o t) \o u = s \o (t \o u)
BY ConcatAssociative

\* One more element after two sequences.
LEMMA AppendConcat ==
  ASSUME NEW s \in Seq(Token), NEW t \in Seq(Token), NEW x \in Token
  PROVE  Append(s \o t, x) = s \o Append(t, x)
<1>1. <<x>> \in Seq(Token) /\ s \o t \in Seq(Token)
  OBVIOUS
<1>2. Append(s \o t, x) = (s \o t) \o <<x>> /\ Append(t, x) = t \o <<x>>
  BY <1>1, AppendIsConcat
<1>3. (s \o t) \o <<x>> = s \o (t \o <<x>>)
  BY <1>1, Associative
<1> QED
  BY <1>2, <1>3

\* Where r goes on as q does after element k, so do its names.
LEMMA NamesShift ==
  ASSUME NEW q \in Seq(Token), NEW r, NEW k \in Nat, NamesIn(r)[k] \in Seq(Token),
         \A i \in 1 .. Len(q) : r[k + i] = q[i]
  PROVE  NamesIn(r)[k + Len(q)] = NamesIn(r)[k] \o Names(q)
<1> DEFINE s == NamesIn(r)[k]
           Same(i) == NamesIn(r)[k + i] = s \o NamesIn(q)[i]
           S == {i \in Nat : i <= Len(q) => Same(i)}
<1>1. Same(0)
  <2>1. NamesIn(q)[0] = <<>> /\ k + 0 = k
    BY NamesStart
  <2>2. s \o <<>> = s
    BY ConcatEmptySeq
  <2> QED
    BY <2>1, <2>2
<1>2. ASSUME NEW i \in Nat, i + 1 <= Len(q), Same(i) PROVE Same(i + 1)
  <2> DEFINE x == q[i + 1]
             t == NamesIn(q)[i]
  <2>1. x \in Token /\ r[k + (i + 1)] = x /\ k + (i + 1) = (k + i) + 1 /\ k + i \in Nat
    BY <1>2
  <2>2. t \in Seq(Token) /\ s \in Seq(Token)
    BY <1>2, NamesType
  <2>3. NamesIn(r)[k + i] = s \o t
    BY <1>2
  <2>4. NamesIn(r)[(k + i) + 1] = IF x = "/" THEN s \o t ELSE Append(s \o t, x)
    <3>1. NamesIn(r)[(k + i) + 1] =
            IF r[(k + i) + 1] = "/" THEN NamesIn(r)[k + i]
            ELSE Append(NamesIn(r)[k + i], r[(k + i) + 1])
      BY <2>1, NamesStep
    <3>2. r[(k + i) + 1] = x
      BY <2>1
    <3> HIDE DEF x, s, t
    <3> QED
      BY <2>3, <3>1, <3>2, Zenon
  <2>5. NamesIn(q)[i + 1] = IF x = "/" THEN t ELSE Append(t, x)
    BY <1>2, NamesStep
  <2>6. Append(s \o t, x) = s \o Append(t, x)
    BY <2>1, <2>2, AppendConcat
  <2>7. NamesIn(r)[k + (i + 1)] = NamesIn(r)[(k + i) + 1]
    BY <2>1, Zenon
  <2> HIDE DEF x, s, t
  <2> QED
    BY <2>4, <2>5, <2>6, <2>7
<1> HIDE DEF Same
<1>3. 0 \in S /\ \A i \in Nat : i \in S => i + 1 \in S
  BY <1>1, <1>2
<1> HIDE DEF S
<1>4. Len(q) \in S
  BY <1>3, SetInduction
<1>5. Same(Len(q))
  BY <1>4 DEF S
<1> QED
  BY <1>5 DEF Same, Names

\* The names of two paths, one after the other.
LEMMA NamesConcat ==
  ASSUME NEW p \in Seq(Token), NEW q \in Seq(Token)
  PROVE  Names(p \o q) = Names(p) \o Names(q)
<1> DEFINE r == p \o q
<1>1. /\ r \in Seq(Token) /\ Len(r) = Len(p) + Len(q) /\ Len(p) \in Nat /\ Len(q) \in Nat
      /\ \A i \in 1 .. Len(p) : r[0 + i] = p[i]
      /\ \A i \in 1 .. Len(q) : r[Len(p) + i] = q[i]
  OBVIOUS
<1> HIDE DEF r
<1>2. NamesIn(r)[0] = <<>> /\ <<>> \in Seq(Token) /\ Names(p) \in Seq(Token)
  BY NamesStart, NamesType DEF Names
<1>3. NamesIn(r)[Len(p)] = Names(p)
  <2>1. NamesIn(r)[0 + Len(p)] = NamesIn(r)[0] \o Names(p)
    BY <1>1, <1>2, NamesShift
  <2>2. 0 + Len(p) = Len(p) /\ <<>> \o Names(p) = Names(p)
    BY <1>1, <1>2
  <2> QED
    BY <1>2, <2>1, <2>2
<1>4. NamesIn(r)[Len(p) + Len(q)] = NamesIn(r)[Len(p)] \o Names(q)
  <2>1. NamesIn(r)[Len(p)] \in Seq(Token)
    BY <1>2, <1>3, Zenon
  <2> QED
    BY <1>1, <2>1, NamesShift, ZenonT(40)
<1>5. Names(r) = NamesIn(r)[Len(p) + Len(q)]
  BY <1>1, Zenon DEF Names
<1> QED
  BY <1>3, <1>4, <1>5, Zenon DEF r

\* A slash has no name.
LEMMA NamesSlash == Names(<<"/">>) = <<>>
<1>1. <<"/">>[0 + 1] = "/" /\ Len(<<"/">>) = 0 + 1
  OBVIOUS
<1>2. NamesIn(<<"/">>)[0 + 1] = NamesIn(<<"/">>)[0]
  BY <1>1, NamesStep
<1> QED
  BY <1>1, <1>2, NamesStart DEF Names

\* Whatever the slashes, joinPath gives the names of both paths.
LEMMA NamesJoin ==
  ASSUME NEW p \in Seq(Token), NEW q \in Seq(Token)
  PROVE  Names(Join(p, q)) = Names(p) \o Names(q)
<1> DEFINE slash == <<"/">>
<1>1. /\ slash \in Seq(Token) /\ <<>> \in Seq(Token) /\ Names(slash) = <<>>
      /\ Names(<<>>) = <<>>
  <2>1. Names(<<>>) = <<>>
    <3>1. Len(<<>>) = 0
      OBVIOUS
    <3> QED
      BY <3>1, NamesStart DEF Names
  <2> QED
    BY <2>1, NamesSlash
<1>2. Names(p) \in Seq(Token) /\ Names(q) \in Seq(Token)
  BY NamesSeq
<1>3. CASE p = <<>> \/ q = <<>>
  <2>1. <<>> \o Names(q) = Names(q) /\ Names(p) \o <<>> = Names(p)
    BY <1>2
  <2> QED
    BY <1>1, <1>3, <2>1 DEF Join
<1>4. CASE p # <<>> /\ q # <<>> /\ p[Len(p)] = "/" /\ Head(q) = "/"
  <2>1. Tail(q) \in Seq(Token) /\ q = slash \o Tail(q)
    <3>1. Tail(q) \in Seq(Token) /\ Len(q) \in Nat \ {0} /\ Len(Tail(q)) = Len(q) - 1
          /\ \A i \in 1 .. Len(Tail(q)) : Tail(q)[i] = q[i + 1]
      BY <1>4, HeadTailProperties
    <3> DEFINE t == slash \o Tail(q)
    <3>2. t \in Seq(Token) /\ Len(t) = Len(q)
      BY <3>1, ConcatProperties
    <3>3. ASSUME NEW i \in 1 .. Len(q) PROVE t[i] = q[i]
      <4>1. CASE i = 1
        BY <1>4, <3>1, <4>1
      <4>2. CASE i # 1
        <5>1. i - 1 \in 1 .. Len(Tail(q)) /\ (i - 1) + 1 = i
          BY <3>1, <4>2
        <5>2. t[i] = Tail(q)[i - 1]
          BY <3>1, <4>2, <5>1
        <5> QED
          BY <3>1, <5>1, <5>2
      <4> QED
        BY <4>1, <4>2
    <3> HIDE DEF t
    <3>4. t = q
      BY <3>2, <3>3, SeqEqual
    <3> QED
      BY <3>1, <3>4 DEF t
  <2>2. Names(q) = Names(slash) \o Names(Tail(q))
    BY <1>1, <2>1, NamesConcat
  <2>3. Names(Tail(q)) \in Seq(Token)
    BY <2>1, NamesSeq
  <2>4. Names(q) = Names(Tail(q))
    BY <1>1, <2>2, <2>3
  <2>5. Join(p, q) = p \o Tail(q)
    BY <1>4 DEF Join
  <2> QED
    BY <2>1, <2>4, <2>5, NamesConcat
<1>5. CASE p # <<>> /\ q # <<>> /\ p[Len(p)] # "/" /\ Head(q) # "/"
  <2>1. p \o slash \in Seq(Token) /\ Join(p, q) = (p \o slash) \o q
    BY <1>1, <1>5 DEF Join
  <2>2. Names(p \o slash) = Names(p)
    <3>1. Names(p \o slash) = Names(p) \o Names(slash)
      BY <1>1, NamesConcat
    <3> QED
      BY <1>1, <1>2, <3>1
  <2> QED
    BY <2>1, <2>2, NamesConcat
<1>6. CASE /\ p # <<>> /\ q # <<>>
           /\ ~(p[Len(p)] = "/" /\ Head(q) = "/") /\ ~(p[Len(p)] # "/" /\ Head(q) # "/")
  <2>1. Join(p, q) = p \o q
    BY <1>6 DEF Join
  <2> QED
    BY <2>1, NamesConcat
<1> QED
  BY <1>3, <1>4, <1>5, <1>6

\* Two alternating paths whose ends differ make one.
LEMMA AlternatesConcat ==
  ASSUME NEW p \in Seq(Token), NEW q \in Seq(Token), Alternates(p), Alternates(q),
         p # <<>> /\ q # <<>> => (p[Len(p)] = "/" <=> q[1] # "/")
  PROVE  Alternates(p \o q)
<1> DEFINE r == p \o q
<1>1. /\ Len(r) = Len(p) + Len(q) /\ Len(p) \in Nat /\ Len(q) \in Nat
      /\ \A i \in 1 .. Len(p) : r[i] = p[i]
      /\ \A i \in Len(p) + 1 .. Len(p) + Len(q) : r[i] = q[i - Len(p)]
  BY ConcatProperties
<1> HIDE DEF r
<1>2. ASSUME NEW i \in 1 .. Len(r) - 1 PROVE r[i] = "/" <=> r[i + 1] # "/"
  <2>1. CASE i < Len(p)
    <3>1. i \in 1 .. Len(p) - 1 /\ r[i] = p[i] /\ r[i + 1] = p[i + 1]
      BY <1>1, <2>1
    <3> QED
      BY <3>1 DEF Alternates
  <2>2. CASE i = Len(p)
    <3>1. p # <<>> /\ q # <<>> /\ r[i] = p[Len(p)] /\ r[i + 1] = q[1]
      BY <1>1, <2>2
    <3> QED
      BY <3>1
  <2>3. CASE i > Len(p)
    <3> DEFINE j == i - Len(p)
    <3>1. j \in 1 .. Len(q) - 1 /\ r[i] = q[j] /\ r[i + 1] = q[j + 1]
      BY <1>1, <2>3
    <3> HIDE DEF j
    <3> QED
      BY <3>1 DEF Alternates
  <2> QED
    BY <1>1, <2>1, <2>2, <2>3
<1> QED
  BY <1>2 DEF Alternates, r

\* joinPath puts one slash between what it joins.
LEMMA AlternatesJoin ==
  ASSUME NEW p \in Seq(Token), NEW q \in Seq(Token), Alternates(p), Alternates(q)
  PROVE  Alternates(Join(p, q))
<1> DEFINE slash == <<"/">>
<1>1. slash \in Seq(Token) /\ Len(slash) = 1 /\ slash[1] = "/" /\ slash # <<>>
  OBVIOUS
<1>2. Alternates(slash)
  BY <1>1 DEF Alternates
<1>3. CASE p = <<>> \/ q = <<>>
  BY <1>3 DEF Join
<1>4. CASE p # <<>> /\ q # <<>> /\ p[Len(p)] = "/" /\ Head(q) = "/"
  <2> DEFINE t == Tail(q)
  <2>1. t \in Seq(Token) /\ Len(q) \in Nat \ {0} /\ Len(t) = Len(q) - 1
        /\ \A i \in 1 .. Len(t) : t[i] = q[i + 1]
    BY <1>4, HeadTailProperties
  <2>2. Join(p, q) = p \o t /\ q[1] = "/"
    BY <1>4 DEF Join
  <2> HIDE DEF t
  <2>3. Alternates(t)
    <3>1. ASSUME NEW i \in 1 .. Len(t) - 1 PROVE t[i] = "/" <=> t[i + 1] # "/"
      <4>1. /\ i + 1 \in 1 .. Len(q) - 1 /\ i \in 1 .. Len(t) /\ i + 1 \in 1 .. Len(t)
            /\ t[i] = q[i + 1] /\ t[i + 1] = q[(i + 1) + 1]
        BY <2>1
      <4> QED
        BY <4>1 DEF Alternates
    <3> QED
      BY <3>1 DEF Alternates
  <2>4. t # <<>> => t[1] # "/"
    <3> SUFFICES ASSUME t # <<>> PROVE t[1] # "/"
      OBVIOUS
    <3>1. 1 \in 1 .. Len(q) - 1 /\ t[1] = q[1 + 1]
      BY <2>1
    <3> QED
      BY <2>2, <3>1 DEF Alternates
  <2> QED
    BY <1>4, <2>1, <2>2, <2>3, <2>4, AlternatesConcat
<1>5. CASE p # <<>> /\ q # <<>> /\ p[Len(p)] # "/" /\ Head(q) # "/"
  <2> DEFINE s == p \o slash
  <2>1. s \in Seq(Token) /\ s # <<>> /\ s[Len(s)] = "/" /\ Join(p, q) = s \o q
    BY <1>1, <1>5 DEF Join
  <2>2. Alternates(s)
    BY <1>1, <1>2, <1>5, AlternatesConcat
  <2> HIDE DEF s
  <2>3. q[1] # "/"
    BY <1>5
  <2> QED
    BY <2>1, <2>2, <2>3, AlternatesConcat
<1>6. CASE /\ p # <<>> /\ q # <<>>
           /\ ~(p[Len(p)] = "/" /\ Head(q) = "/") /\ ~(p[Len(p)] # "/" /\ Head(q) # "/")
  <2>1. Join(p, q) = p \o q /\ q[1] = Head(q)
    BY <1>6 DEF Join
  <2> QED
    BY <1>6, <2>1, AlternatesConcat
<1> QED
  BY <1>3, <1>4, <1>5, <1>6

-----------------------------------------------------------------------------
(* Joined paths                                                            *)

\* A mux has the prefixes of the blocks around it.
Prefixed ==
  /\ outer \in [Mux -> Seq(Token)]
  /\ \A m \in made : Alternates(prefix[m]) /\ Names(prefix[m]) = outer[m]

PathInv == TypeOK /\ Prefixed /\ PathsJoined

\* Copying joins the prefix of a block to those around it.
LEMMA CopyJoined ==
  ASSUME PathInv, NEW m \in Mux, NEW c \in Mux, NEW ws, NEW pattern \in Seq(Token),
         Alternates(pattern), Copy(m, c, ws, pattern)
  PROVE  Prefixed' /\ PathsJoined'
<1>1. m \in made /\ c \notin made /\ made' = made \cup {c}
  BY DEF Copy, Call
<1>2. /\ prefix[m] \in Seq(Token) /\ prefix' = [prefix EXCEPT ![c] = Join(prefix[m], pattern)]
      /\ prefix \in [Mux -> Seq(Token)] /\ outer \in [Mux -> Seq(Token)]
  BY DEF PathInv, TypeOK, Prefixed, Copy
<1>3. outer' = [outer EXCEPT ![c] = outer[m] \o Names(pattern)]
  BY DEF Copy
<1>4. Alternates(prefix[m]) /\ Names(prefix[m]) = outer[m]
  BY <1>1 DEF PathInv, Prefixed
<1>5. Alternates(prefix'[c]) /\ Names(prefix'[c]) = outer'[c]
  <2>1. prefix'[c] = Join(prefix[m], pattern) /\ outer'[c] = outer[m] \o Names(pattern)
    BY <1>2, <1>3
  <2> QED
    BY <1>2, <1>4, <2>1, AlternatesJoin, NamesJoin
<1>6. ASSUME NEW x \in made PROVE Alternates(prefix'[x]) /\ Names(prefix'[x]) = outer'[x]
  <2>1. prefix'[x] = prefix[x] /\ outer'[x] = outer[x]
    BY <1>1, <1>2, <1>3 DEF PathInv, TypeOK
  <2> QED
    BY <2>1 DEF PathInv, Prefixed
<1>7. PathsJoined'
  <2>1. routes' = routes
    BY DEF Copy
  <2> QED
    BY <2>1 DEF PathInv, PathsJoined, Joined
<1>8. outer' \in [Mux -> Seq(Token)]
  <2>1. Names(pattern) \in Seq(Token) /\ outer[m] \in Seq(Token)
    BY <1>2, NamesSeq
  <2>2. outer[m] \o Names(pattern) \in Seq(Token)
    BY <2>1, ConcatProperties
  <2> QED
    BY <1>2, <1>3, <2>2
<1> QED
  BY <1>1, <1>5, <1>6, <1>7, <1>8 DEF Prefixed

\* A path that is joined with the prefixes of its mux has their names and its own.
LEMMA AddRouteJoined ==
  ASSUME PathInv, NEW m \in Mux, NEW method, NEW path \in Seq(Token), NEW given, NEW opts,
         NEW static, AddRoute(m, method, path, given, opts, static), Alternates(path),
         ~static \/ outer[m] = <<>> => Names(path) = given
  PROVE  Prefixed' /\ PathsJoined'
<1> DEFINE full == Join(prefix[m], path)
           new == [path |-> full, method |-> method, chain |-> Chain(m),
                   schema |-> opts.schema, scope |-> scope[m] \o inline[m],
                   outer |-> outer[m], given |-> given, static |-> static]
<1>1. routes' = routes \cup {new} /\ UNCHANGED <<made, prefix, outer>>
  BY DEF AddRoute
<1>2. /\ prefix[m] \in Seq(Token) /\ Alternates(prefix[m]) /\ Names(prefix[m]) = outer[m]
      /\ outer[m] \in Seq(Token)
  BY DEF AddRoute, Call, PathInv, Prefixed, TypeOK
<1>3. new.path = full /\ new.outer = outer[m] /\ new.given = given /\ new.static = static
  OBVIOUS
<1>4. Alternates(full) /\ Names(full) = outer[m] \o Names(path)
  BY <1>2, AlternatesJoin, NamesJoin
<1>5. Prefixed'
  BY <1>1 DEF PathInv, Prefixed
<1> HIDE DEF new, full
<1>6. ~new.static \/ new.outer = <<>> => Joined(new)
  BY <1>3, <1>4 DEF Joined
<1>7. ASSUME NEW r \in routes'
      PROVE  Alternates(r.path) /\ (~r.static \/ r.outer = <<>> => Joined(r))
  BY <1>1, <1>3, <1>4, <1>6 DEF PathInv, PathsJoined
<1>8. PathsJoined'
  BY <1>7 DEF PathsJoined, Joined
<1> QED
  BY <1>5, <1>8

\* Outside of all prefixes, Static's path has the names given.
LEMMA StaticJoined ==
  ASSUME PathInv, NEW m \in Mux, NEW path \in Seq(Token), Alternates(path), Static(m, path)
  PROVE  Prefixed' /\ PathsJoined'
<1> DEFINE end == <<"/", "*filepath">>
           joined == Join(prefix[m], path)
           p == Join(joined, end)
           given == Names(path) \o <<"*filepath">>
<1>1. AddRoute(m, Get, p, given, [schema |-> None, meta |-> FALSE], TRUE)
  BY DEF Static
<1>2. /\ prefix[m] \in Seq(Token) /\ Alternates(prefix[m]) /\ Names(prefix[m]) = outer[m]
      /\ outer[m] \in Seq(Token)
  BY DEF Static, AddRoute, Call, PathInv, Prefixed, TypeOK
<1>3. /\ end \in Seq(Token) /\ Len(end) = 2
      /\ end[1] = "/" /\ end[2] = "*filepath" /\ <<"*filepath">> \in Seq(Token)
  OBVIOUS
<1>4. Alternates(end) /\ Names(end) = <<"*filepath">>
  <2>1. Alternates(end)
    BY <1>3 DEF Alternates
  <2>2. NamesIn(end)[0 + 1] = <<>>
    <3>1. end[0 + 1] = "/"
      BY <1>3
    <3> QED
      BY <3>1, NamesStep, NamesStart
  <2>3. NamesIn(end)[1 + 1] = Append(<<>>, "*filepath")
    <3>1. end[1 + 1] = "*filepath" /\ "*filepath" # "/" /\ 0 + 1 = 1 /\ 1 \in Nat
      BY <1>3
    <3> HIDE DEF end
    <3>2. NamesIn(end)[1 + 1] = Append(NamesIn(end)[1], "*filepath")
      BY <3>1, NamesStep
    <3> QED
      BY <2>2, <3>1, <3>2
  <2>4. Append(<<>>, "*filepath") = <<"*filepath">> /\ 1 + 1 = 2
    OBVIOUS
  <2> QED
    BY <1>3, <2>1, <2>3, <2>4 DEF Names
<1> HIDE DEF end
<1>5. /\ joined \in Seq(Token) /\ Alternates(joined)
      /\ Names(joined) = outer[m] \o Names(path)
  BY <1>2, JoinType, AlternatesJoin, NamesJoin
<1> HIDE DEF joined
<1>6. /\ p \in Seq(Token) /\ Alternates(p)
      /\ Names(p) = (outer[m] \o Names(path)) \o <<"*filepath">>
  BY <1>3, <1>4, <1>5, JoinType, AlternatesJoin, NamesJoin
<1>7. Names(path) \in Seq(Token)
  BY NamesSeq
<1>8. outer[m] = <<>> => Names(p) = given
  <2>1. given \in Seq(Token)
    BY <1>3, <1>7, ConcatProperties
  <2>2. (outer[m] \o Names(path)) \o <<"*filepath">> = outer[m] \o given
    <3> DEFINE last == <<"*filepath">>
    <3>1. last \in Seq(Token)
      BY <1>3
    <3> HIDE DEF last
    <3>2. (outer[m] \o Names(path)) \o last = outer[m] \o (Names(path) \o last)
      BY <1>2, <1>7, <3>1, Associative, ZenonT(40)
    <3> QED
      BY <3>2 DEF last
  <2>3. <<>> \o given = given
    BY <2>1, ConcatEmptySeq
  <2> HIDE DEF given
  <2> QED
    BY <1>6, <2>2, <2>3
<1> HIDE DEF p, given
<1> QED
  BY <1>1, <1>6, <1>8, AddRouteJoined

LEMMA NextJoined ==
  ASSUME PathInv, [Next]_vars
  PROVE  Prefixed' /\ PathsJoined'
<1>1. ASSUME NEW m \in Mux, NEW c \in Mux, NEW p \in Prefix, Route(m, c, p)
      PROVE  Prefixed' /\ PathsJoined'
  <2>1. p \in Seq(Token) /\ Alternates(p)
    BY SlashAssumption
  <2> QED
    BY <1>1, <2>1, CopyJoined DEF Route
<1>2. ASSUME NEW m \in Mux, NEW c \in Mux, NEW ws, Copy(m, c, ws, <<>>)
      PROVE  Prefixed' /\ PathsJoined'
  <2>1. <<>> \in Seq(Token) /\ Alternates(<<>>)
    BY DEF Alternates
  <2> QED
    BY <1>2, <2>1, CopyJoined
<1>3. ASSUME NEW m \in Mux, NEW p \in Given, Static(m, p)
      PROVE  Prefixed' /\ PathsJoined'
  BY <1>3, SlashAssumption, StaticJoined
<1>4. ASSUME NEW m \in Mux, NEW method, NEW p \in Given, NEW opts, Register(m, method, p, opts)
      PROVE  Prefixed' /\ PathsJoined'
  BY <1>4, SlashAssumption, AddRouteJoined DEF Register
<1>5. ASSUME UNCHANGED <<made, prefix, outer, routes>> PROVE Prefixed' /\ PathsJoined'
  BY <1>5 DEF PathInv, Prefixed, PathsJoined, Joined
<1>6. ASSUME NEW m \in Mux, NEW method, NEW p, NEW opts,
             RegisterTwice(m, method, p, opts) \/ Inject(m, method, p, opts)
      PROVE  Prefixed' /\ PathsJoined'
  BY <1>5, <1>6 DEF RegisterTwice, Inject, Leave
<1>7. ASSUME NEW m \in Mux, NEW ws, Use(m, ws) PROVE Prefixed' /\ PathsJoined'
  BY <1>5, <1>7 DEF Use
<1>8. CASE UNCHANGED vars
  BY <1>5, <1>8 DEF vars
<1> QED
  BY <1>1, <1>2, <1>3, <1>4, <1>6, <1>7, <1>8 DEF Next, Group, With

\* A route is found below the prefixes of the blocks around it and under the path
\* given, for any paths, depth of blocks and number of routes; Static in a block
\* with a prefix is left out.
THEOREM PathsStayJoined == Spec => []PathsJoined
<1>1. Init => PathInv
  <2> SUFFICES ASSUME Init PROVE PathInv
    OBVIOUS
  <2>1. Alternates(<<>>) /\ Names(<<>>) = <<>> /\ <<>> \in Seq(Token)
    <3>1. Len(<<>>) = 0
      OBVIOUS
    <3> QED
      BY <3>1, NamesStart DEF Names, Alternates
  <2>2. Prefixed
    BY <2>1 DEF Init, Prefixed
  <2>3. PathsJoined
    BY DEF Init, PathsJoined
  <2> QED
    BY <2>2, <2>3, InitType DEF PathInv
<1>2. PathInv /\ [Next]_vars => PathInv'
  BY NextType, NextJoined DEF PathInv
<1>3. PathInv => PathsJoined
  BY DEF PathInv
<1> QED
  BY <1>1, <1>2, <1>3, PTL DEF Spec
=============================================================================
