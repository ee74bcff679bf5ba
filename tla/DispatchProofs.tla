--------------------------- MODULE DispatchProofs ----------------------------
(***************************************************************************)
(* Theorems about Dispatch, for any chain of middlewares, any rules and any*)
(* number of Timeouts: its types, that the result of a goroutine is final, *)
(* and that a failure is never answered as a success.  They rest on lemmas *)
(* about Middleware and ChainRun, which DispatchRefinement uses too.       *)
(***************************************************************************)
EXTENDS Dispatch, TLAPS, WellFoundedInduction

-----------------------------------------------------------------------------
(* Middleware and ChainRun: what the elements do to the types, and what the run of a *)
(* chain by itself can come to.  Run is a recursive function; induction over the     *)
(* length of the chain is by the least element of a set of numbers.                  *)

Outcome == [go : BOOLEAN, s : Context, err : Nat]

LEMMA ContentTyped ==
  <<>> \in Seq(Content) /\ \A b \in Content : <<b>> \in Seq(Content)
  OBVIOUS

\* Replacing a field keeps the type.
LEMMA FieldTyped ==
  ASSUME NEW s \in Context
  PROVE  /\ \A p \in Path : [s EXCEPT !.path = p] \in Context
         /\ \A n \in Nat : [s EXCEPT !.status = n] \in Context
         /\ \A h \in [Header -> Nat] : [s EXCEPT !.hdr = h] \in Context
         /\ \A b \in Seq(Content) : [s EXCEPT !.body = b] \in Context
         /\ \A x \in Seq(Content) : [s EXCEPT !.stream = x] \in Context
  <1>1. \A p \in Path : [s EXCEPT !.path = p] \in Context
    BY DEF Context
  <1>2. \A n \in Nat : [s EXCEPT !.status = n] \in Context
    BY DEF Context
  <1>3. \A h \in [Header -> Nat] : [s EXCEPT !.hdr = h] \in Context
    BY DEF Context
  <1>4. \A b \in Seq(Content) : [s EXCEPT !.body = b] \in Context
    BY DEF Context
  <1>5. \A x \in Seq(Content) : [s EXCEPT !.stream = x] \in Context
    BY DEF Context
  <1> QED BY <1>1, <1>2, <1>3, <1>4, <1>5

-----------------------------------------------------------------------------
(* What the middlewares and handlers return                                *)

LEMMA FreshTyped == ASSUME NEW p \in Path PROVE Fresh(p) \in Context
  <1>1. Nothing \in [Header -> Nat] /\ <<>> \in Seq(Content)
    BY DEF Nothing
  <1> QED BY <1>1 DEF Fresh, Context

LEMMA SetTyped ==
  ASSUME NEW s \in Context, NEW h \in Header
  PROVE  SetHeader(s, h) \in Context /\ AddHeader(s, h) \in Context
  <1>1. /\ s.pend \in [Header -> Nat]
        /\ [s.pend EXCEPT ![h] = 1] \in [Header -> Nat]
        /\ [s.pend EXCEPT ![h] = @ + 1] \in [Header -> Nat]
    <2>1. s.pend \in [Header -> Nat]
      BY DEF Context
    <2> QED BY <2>1
  <1>2. SetHeader(s, h) = [s EXCEPT !.init = TRUE, !.pend = [s.pend EXCEPT ![h] = 1]]
    BY DEF SetHeader, Context
  <1>3. AddHeader(s, h) = [s EXCEPT !.init = TRUE, !.pend = [s.pend EXCEPT ![h] = @ + 1]]
    BY DEF AddHeader, Context
  <1> QED BY <1>1, <1>2, <1>3 DEF Context

LEMMA SyncTyped == ASSUME NEW s \in Context PROVE SyncHeaders(s) \in Context
  <1> DEFINE both == [h \in Header |-> s.hdr[h] + s.pend[h]]
  <1>1. both \in [Header -> Nat]
    BY DEF Context
  <1>2. [s EXCEPT !.synced = TRUE, !.hdr = both] \in Context
    <2> HIDE DEF both
    <2> QED BY <1>1 DEF Context
  <1>3. [s EXCEPT !.synced = TRUE, !.hdr = [h \in Header |-> @[h] + s.pend[h]]]
          = [s EXCEPT !.synced = TRUE, !.hdr = both]
    BY DEF Context
  <1> QED BY <1>2, <1>3 DEF SyncHeaders

LEMMA SyncKeeps ==
  ASSUME NEW s \in Context
  PROVE  /\ SyncHeaders(s).status = s.status
         /\ SyncHeaders(s).body = s.body
         /\ SyncHeaders(s).stream = s.stream
  BY DEF SyncHeaders, Context

LEMMA SendTyped ==
  ASSUME NEW s \in Context, NEW code \in Nat, NEW body \in Seq(Content)
  PROVE  SendString(s, code, body) \in Context
  BY ContentTyped DEF SendString, Context

LEMMA WriteTyped ==
  ASSUME NEW s \in Context, NEW b \in Content
  PROVE  Write(s, b) \in Context
  <1>1. SyncHeaders(s) \in Context
    BY SyncTyped
  <1>2. Append(SyncHeaders(s).body, b) \in Seq(Content)
    BY <1>1 DEF Context
  <1> QED BY <1>1, <1>2, ContentTyped DEF Write, Context

LEMMA WriteHeaderTyped ==
  ASSUME NEW s \in Context, NEW code \in Nat
  PROVE  WriteHeader(s, code) \in Context
  BY SyncTyped, FieldTyped DEF WriteHeader

LEMMA StepsTyped ==
  ASSUME NEW s \in Context, NEW err \in Nat
  PROVE  Go(s) \in Outcome /\ Stop(s, err) \in Outcome
  BY DEF Go, Stop, Outcome

\* What an element does before Next, after it, and what a handler returns.
LEMMA DownTyped ==
  ASSUME NEW k, NEW q, NEW s \in Context, NEW o \in Down(k, q, s)
  PROVE  o \in Outcome
  <1>e. <<>> \in Seq(Content) /\ <<"icon">> \in Seq(Content) /\ <<"file">> \in Seq(Content)
    BY ContentTyped DEF Content
  <1>g. Go(s) \in Outcome /\ \A n \in Nat : Stop(s, n) \in Outcome
    BY StepsTyped
  <1>h. \A h \in {"rid", "cors", "cookie", "security", "icon", "location"} :
          /\ SetHeader(s, h) \in Context /\ AddHeader(s, h) \in Context
          /\ Go(SetHeader(s, h)) \in Outcome /\ Go(AddHeader(s, h)) \in Outcome
    BY SetTyped, StepsTyped DEF Header
  <1>s. /\ Stop(SendString(SetHeader(s, "cors"), 204, <<>>), 0) \in Outcome
        /\ Stop(SendString(SetHeader(s, "location"), 302, <<>>), 0) \in Outcome
        /\ Stop(SendString(SetHeader(s, "icon"), 200, <<"icon">>), 0) \in Outcome
    <2> DEFINE none == 204
               found == 302
               ok == 200
    <2>1. none \in Nat /\ found \in Nat /\ ok \in Nat
      OBVIOUS
    <2> HIDE DEF none, found, ok
    <2>2. SendString(SetHeader(s, "cors"), none, <<>>) \in Context
      BY <2>1, <1>e, <1>h, SendTyped
    <2>3. SendString(SetHeader(s, "location"), found, <<>>) \in Context
      BY <2>1, <1>e, <1>h, SendTyped
    <2>4. SendString(SetHeader(s, "icon"), ok, <<"icon">>) \in Context
      BY <2>1, <1>e, <1>h, SendTyped
    <2>5. /\ Stop(SendString(SetHeader(s, "cors"), none, <<>>), 0) \in Outcome
          /\ Stop(SendString(SetHeader(s, "location"), found, <<>>), 0) \in Outcome
          /\ Stop(SendString(SetHeader(s, "icon"), ok, <<"icon">>), 0) \in Outcome
      BY <2>2, <2>3, <2>4, StepsTyped
    <2> QED BY <2>5 DEF none, found, ok
  <1>1. CASE k = "requestid"
    BY <1>1, <1>h DEF Down, RequestID
  <1>2. CASE k = "helmet"
    BY <1>2, <1>h DEF Down, Helmet
  <1>3. CASE k = "cors"
    <2>1. o \in CORS(q, s)
      BY <1>3 DEF Down
    <2>2. o \in {Go(s), Stop(SendString(SetHeader(s, "cors"), 204, <<>>), 0), Go(SetHeader(s, "cors"))}
      BY <2>1 DEF CORS
    <2> QED BY <2>2, <1>g, <1>h, <1>s
  <1>4. CASE k = "csrf"
    <2>1. o \in {Go(AddHeader(s, "cookie")), Stop(s, 403)}
      BY <1>4 DEF Down, CSRF
    <2> QED BY <2>1, <1>g, <1>h
  <1>5. CASE k = "earlydata"
    <2>1. o \in {Go(s), Stop(s, 425)}
      BY <1>5 DEF Down, EarlyData
    <2> QED BY <2>1, <1>g
  <1>6. CASE k = "redirect"
    <2>1. o \in {Go(s), Stop(SendString(SetHeader(s, "location"), 302, <<>>), 0)}
      BY <1>6 DEF Down, Redirect
    <2> QED BY <2>1, <1>g, <1>s
  <1>7. CASE k = "rewrite"
    <2>1. \A p \in Targets(RewriteRules, s.path) : p \in Path
      BY RewriteAssumption DEF Targets
    <2>2. \A p \in Path : [s EXCEPT !.path = p] \in Context
      BY DEF Context
    <2>3. \A p \in Path : Go([s EXCEPT !.path = p]) \in Outcome
      BY <2>2, StepsTyped
    <2>4. o = Go(s) \/ \E p \in Targets(RewriteRules, s.path) : o = Go([s EXCEPT !.path = p])
      BY <1>7 DEF Down, Rewrite
    <2> QED BY <2>1, <2>3, <2>4, <1>g
  <1>8. CASE k = "favicon"
    <2>1. o \in {Go(s), Stop(SendString(SetHeader(s, "icon"), 200, <<"icon">>), 0)}
      BY <1>8 DEF Down, Favicon
    <2> QED BY <2>1, <1>g, <1>s
  <1>9. CASE k = "static"
    <2> DEFINE t == [s EXCEPT !.path = Strip[s.path]]
               u == [t EXCEPT !.status = 404, !.hdr = Nothing, !.body = <<>>, !.stream = <<>>]
               v == [t EXCEPT !.status = 200, !.body = <<>>, !.stream = <<"file">>]
    <2>1. o = Go(s) \/ (s.path \in DOMAIN Strip
                        /\ (o = Stop(v, 0) \/ o = Go(u)))
      BY <1>9 DEF Down, Static
    <2>2. CASE s.path \in DOMAIN Strip
      <3>1. t \in Context
        BY <2>2, RewriteAssumption DEF Context
      <3>2. Nothing \in [Header -> Nat]
        BY DEF Nothing
      <3> DEFINE missing == 404
                 ok == 200
      <3>3. missing \in Nat /\ ok \in Nat
        OBVIOUS
      <3>4. u \in Context
        <4> HIDE DEF t, missing
        <4>1. [t EXCEPT !.status = missing] \in Context
          BY <3>1, <3>3, FieldTyped
        <4>2. [[t EXCEPT !.status = missing] EXCEPT !.hdr = Nothing] \in Context
          BY <3>2, <4>1, FieldTyped
        <4>3. [[[t EXCEPT !.status = missing] EXCEPT !.hdr = Nothing] EXCEPT !.body = <<>>] \in Context
          BY <1>e, <4>2, FieldTyped
        <4>4. [[[[t EXCEPT !.status = missing] EXCEPT !.hdr = Nothing] EXCEPT !.body = <<>>]
                EXCEPT !.stream = <<>>] \in Context
          BY <1>e, <4>3, FieldTyped
        <4> QED BY <4>4 DEF missing
      <3>5. v \in Context
        <4> HIDE DEF t, ok
        <4>1. [t EXCEPT !.status = ok] \in Context
          BY <3>1, <3>3, FieldTyped
        <4>2. [[t EXCEPT !.status = ok] EXCEPT !.body = <<>>] \in Context
          BY <1>e, <4>1, FieldTyped
        <4>3. [[[t EXCEPT !.status = ok] EXCEPT !.body = <<>>] EXCEPT !.stream = <<"file">>]
                \in Context
          BY <1>e, <4>2, FieldTyped
        <4> QED BY <4>3 DEF ok
      <3> QED BY <2>1, <3>4, <3>5, <1>g, StepsTyped
    <2> QED BY <2>1, <2>2, <1>g
  <1>10. CASE k = "wrapped"
    <2>1. o \in {Go(s), Stop(Write(WriteHeader(s, 403), "denied"), 0)}
      BY <1>10 DEF Down, WrapDeny
    <2>2. Write(WriteHeader(s, 403), "denied") \in Context
      <3>1. WriteHeader(s, 403) \in Context
        BY WriteHeaderTyped
      <3> QED BY <3>1, WriteTyped DEF Content
    <2> QED BY <2>1, <2>2, <1>g, StepsTyped
  <1>11. CASE k \notin {"requestid", "helmet", "cors", "csrf", "earlydata", "redirect",
                        "rewrite", "favicon", "static", "wrapped"}
    BY <1>11, <1>g DEF Down
  <1> QED BY <1>1, <1>2, <1>3, <1>4, <1>5, <1>6, <1>7, <1>8, <1>9, <1>10, <1>11

LEMMA UpTyped ==
  ASSUME NEW k, NEW q, NEW s \in Context, NEW err \in Nat
  PROVE  Up(k, q, s, err).s \in Context /\ Up(k, q, s, err).err \in Nat
  <1>e. <<>> \in Seq(Content) /\ <<"stream">> \in Seq(Content) /\ <<"encoded">> \in Seq(Content)
    BY ContentTyped DEF Content
  <1>1. CASE k = "etag"
    <2> DEFINE t == [s EXCEPT !.body = Answer(s).body, !.stream = <<>>]
               tagged == SetHeader(t, "etag")
    <2>1. Answer(s).body \in Seq(Content)
      BY <1>e DEF Answer, Context
    <2>2. t \in Context
      <3> HIDE DEF t
      <3>1. \A b \in Seq(Content) : [s EXCEPT !.body = b, !.stream = <<>>] \in Context
        BY <1>e DEF Context
      <3> QED BY <2>1, <3>1 DEF t
    <2>3. tagged \in Context
      BY <2>2, SetTyped DEF Header
    <2>4. [tagged EXCEPT !.body = <<>>, !.status = 304] \in Context
      <3> DEFINE unmodified == 304
      <3>1. unmodified \in Nat
        OBVIOUS
      <3> HIDE DEF tagged, unmodified
      <3>2. [tagged EXCEPT !.body = <<>>] \in Context
        BY <2>3, <1>e, FieldTyped
      <3>3. [[tagged EXCEPT !.body = <<>>] EXCEPT !.status = unmodified] \in Context
        BY <3>1, <3>2, FieldTyped
      <3> QED BY <3>3 DEF unmodified
    <2>5. \/ Up(k, q, s, err) = [s |-> s, err |-> err]
          \/ Up(k, q, s, err) = [s |-> tagged, err |-> err]
          \/ Up(k, q, s, err) = [s |-> [tagged EXCEPT !.body = <<>>, !.status = 304], err |-> 0]
      BY <1>1, Zenon DEF Up, ETag
    <2> HIDE DEF tagged
    <2> QED BY <2>3, <2>4, <2>5
  <1>2. CASE k = "responsetime"
    <2>1. SetHeader(s, "rtime") \in Context
      BY SetTyped DEF Header
    <2> QED BY <1>2, <2>1 DEF Up, ResponseTime
  <1>3. CASE k = "compress"
    <2> DEFINE h == [s.hdr EXCEPT !["encoding"] = 1]
               b == IF s.stream # <<>> THEN s.body ELSE <<"encoded">>
    <2>1. h \in [Header -> Nat] /\ b \in Seq(Content)
      BY <1>e DEF Context, Header
    <2>2. [s EXCEPT !.hdr = h, !.body = b] \in Context
      <3> HIDE DEF h, b
      <3> QED BY <2>1 DEF Context
    <2>3. [s EXCEPT !.hdr["encoding"] = 1, !.body = IF s.stream # <<>> THEN @ ELSE <<"encoded">>]
            = [s EXCEPT !.hdr = h, !.body = b]
      BY DEF Context
    <2> QED BY <1>3, <2>2, <2>3 DEF Up, Compress
  <1>4. CASE k \notin {"etag", "responsetime", "compress"}
    BY <1>4 DEF Up
  <1> QED BY <1>1, <1>2, <1>3, <1>4

LEMMA ReturnsTyped ==
  ASSUME NEW s \in Context, NEW k \in Returning
  PROVE  Returns(k, s) \in Outcome
  <1>e. <<"text">> \in Seq(Content) /\ <<"json">> \in Seq(Content)
    BY ContentTyped DEF Content
  <1>g. \A t \in Context : \A n \in Nat : Stop(t, n) \in Outcome
    BY StepsTyped
  <1>s. \A t \in Context : /\ Stop(SendString(t, 200, <<"text">>), 0) \in Outcome
                           /\ Stop(SendString(t, 200, <<"json">>), 0) \in Outcome
    <2> SUFFICES ASSUME NEW t \in Context
                 PROVE  /\ Stop(SendString(t, 200, <<"text">>), 0) \in Outcome
                        /\ Stop(SendString(t, 200, <<"json">>), 0) \in Outcome
      OBVIOUS
    <2> DEFINE ok == 200
    <2>1. ok \in Nat
      OBVIOUS
    <2> HIDE DEF ok
    <2>2. SendString(t, ok, <<"text">>) \in Context /\ SendString(t, ok, <<"json">>) \in Context
      BY <2>1, <1>e, SendTyped
    <2>3. /\ Stop(SendString(t, ok, <<"text">>), 0) \in Outcome
          /\ Stop(SendString(t, ok, <<"json">>), 0) \in Outcome
      BY <2>2, <1>g
    <2> QED BY <2>3 DEF ok
  <1>1. CASE k = "string"
    BY <1>1, <1>s DEF Returns
  <1>2. CASE k = "echo"
    <2>1. Returns(k, s) \in {Stop(SendString(s, 200, <<"json">>), 0), Stop(s, 500)}
      BY <1>2 DEF Returns, SendEcho
    <2> QED BY <2>1, <1>s, <1>g
  <1>3. CASE k \in {"own", "ownid"}
    <2> SUFFICES ASSUME NEW h \in Header, Returns(k, s) = SendOwn(s, h)
                 PROVE  Returns(k, s) \in Outcome
      BY <1>3 DEF Returns, Header
    <2>1. [s.hdr EXCEPT ![h] = 1] \in [Header -> Nat]
      BY DEF Context
    <2>2. \A g \in [Header -> Nat] : [s EXCEPT !.hdr = g] \in Context
      BY DEF Context
    <2>3. [s EXCEPT !.hdr[h] = 1] \in Context
      BY <2>1, <2>2
    <2> QED BY <2>3, <1>s DEF SendOwn
  <1>4. CASE k \in {"write", "created", "writefail"}
    <2>1. SetHeader(s, "user") \in Context
      BY SetTyped DEF Header
    <2>2. WriteHeader(s, 201) \in Context
      BY WriteHeaderTyped
    <2>3. \A t \in Context : Write(t, "text") \in Context
      BY WriteTyped DEF Content
    <2> QED BY <1>4, <2>1, <2>2, <2>3, <1>g DEF Returns
  <1>5. CASE k = "fail"
    BY <1>5, <1>g DEF Returns
  <1>6. CASE k \in {"notfound", "notallowed"}
    BY <1>6, <1>g, SetTyped DEF Returns, NotFound, NotAllowed, Header
  <1> QED BY <1>1, <1>2, <1>3, <1>4, <1>5, <1>6 DEF Returning, Panicking, Terminal, Handlers

LEMMA CopiesTyped ==
  ASSUME NEW s \in Context, NEW copy \in Context
  PROVE  /\ Copied(s) \in Context /\ CopyBack(s, copy) \in Context
         /\ Streamed(s) \in Context
  <1>1. Copied(s) \in Context
    BY FreshTyped DEF Copied, Context
  <1>2. CopyBack(s, copy) \in Context
    BY ContentTyped DEF CopyBack, Context
  <1>3. Streamed(s) \in Context
    <2> DEFINE h == [s.hdr EXCEPT !["user"] = 1]
               ok == 200
    <2>0. ok \in Nat
      OBVIOUS
    <2>1. h \in [Header -> Nat]
      BY DEF Context
    <2>2. Streamed(s) = [s EXCEPT !.status = ok, !.hdr = h, !.body = <<>>,
                                    !.stream = <<"stream">>]
      BY DEF Streamed, Context
    <2> HIDE DEF h, ok
    <2>3. [s EXCEPT !.status = ok] \in Context
      BY <2>0, FieldTyped
    <2>4. [[s EXCEPT !.status = ok] EXCEPT !.hdr = h] \in Context
      BY <2>1, <2>3, FieldTyped
    <2>5. [[[s EXCEPT !.status = ok] EXCEPT !.hdr = h] EXCEPT !.body = <<>>] \in Context
      BY <2>4, ContentTyped, FieldTyped
    <2>6. <<"stream">> \in Seq(Content)
      BY ContentTyped DEF Content
    <2> QED BY <2>2, <2>5, <2>6, FieldTyped
  <1> QED BY <1>1, <1>2, <1>3

-----------------------------------------------------------------------------
(* Induction                                                               *)

\* A set of numbers has a least one.
LEMMA Least ==
  ASSUME NEW T \in SUBSET Nat, T # {}
  PROVE  \E n \in T : \A m \in T : n <= m
  <1> DEFINE R == OpToRel(<, Nat)
  <1>1. IsWellFoundedOn(R, Nat)
    BY NatLessThanWellFounded
  <1>2. \A m, n \in Nat : m < n => <<m, n>> \in R
    BY DEF OpToRel
  <1> HIDE DEF R
  <1>3. PICK n \in T : \A m \in T : <<m, n>> \notin R
    BY <1>1, WFMin
  <1>4. \A m \in T : n <= m
    <2> TAKE m \in T
    <2>1. m \in Nat /\ n \in Nat /\ ~(m < n)
      BY <1>2, <1>3
    <2> QED BY <2>1
  <1> QED BY <1>3, <1>4

\* Induction over the numbers, for the set S of those that have the property.
LEMMA SetInduction ==
  ASSUME NEW S, 0 \in S, \A n \in Nat : n \in S => n + 1 \in S
  PROVE  Nat \subseteq S
  <1> SUFFICES ASSUME Nat \ S # {} PROVE FALSE
    OBVIOUS
  <1>1. PICK n \in Nat \ S : \A m \in Nat \ S : n <= m
    BY Least
  <1>2. n - 1 \in Nat /\ n = (n - 1) + 1
    BY <1>1
  <1>3. n - 1 \in S
    BY <1>1, <1>2
  <1> QED BY <1>1, <1>2, <1>3

\* Induction from the end of a chain, for the set S of the places that have the
\* property.
LEMMA Backwards ==
  ASSUME NEW n \in Nat, NEW S, n + 1 \in S, \A i \in 1 .. n : i + 1 \in S => i \in S
  PROVE  1 .. n + 1 \subseteq S
  <1> DEFINE T == {m \in Nat : m <= n => n + 1 - m \in S}
  <1>1. 0 \in T
    OBVIOUS
  <1>2. ASSUME NEW m \in Nat, m \in T PROVE m + 1 \in T
    <2> SUFFICES ASSUME m + 1 <= n PROVE n + 1 - (m + 1) \in S
      OBVIOUS
    <2> DEFINE i == n + 1 - (m + 1)
    <2>1. i \in 1 .. n /\ i + 1 = n + 1 - m /\ m <= n
      OBVIOUS
    <2> HIDE DEF i
    <2>2. i \in S
      BY <1>2, <2>1
    <2> QED BY <2>2 DEF i
  <1>3. Nat \subseteq T
    <2> HIDE DEF T
    <2> QED BY <1>1, <1>2, SetInduction
  <1>4. ASSUME NEW i \in 1 .. n PROVE i \in S
    <2> DEFINE m == n + 1 - i
    <2>1. m \in Nat /\ m <= n /\ n + 1 - m = i
      OBVIOUS
    <2> HIDE DEF m
    <2>2. m \in T
      BY <1>3, <2>1
    <2> QED BY <2>1, <2>2
  <1>5. 1 .. n + 1 = (1 .. n) \cup {n + 1}
    OBVIOUS
  <1> QED BY <1>4, <1>5

\* The results of the last n elements, given those of the last n - 1.
Layer(c, q, n, below) ==
  [s \in Context |-> IF n = 0 THEN {} ELSE RunElement(c[Len(c) + 1 - n], q, s, below)]

\* Run is what its recursive definition says.
LEMMA RunUnfolds ==
  ASSUME NEW c, NEW q
  PROVE  \A n \in Nat : Run(c, q)[n] = Layer(c, q, n, Run(c, q)[n - 1])
  <1> DEFINE F(n, below) == Layer(c, q, n, below)
             Solves(g, m) == g = [n \in 0 .. m |-> F(n, g[n - 1])]
             Good == {m \in Nat : \E g : Solves(g, m)}
  <1>1. \A x, y : F(0, x) = F(0, y)
    BY DEF Layer
  <1>2. Run(c, q) = CHOOSE run : run = [n \in Nat |-> F(n, run[n - 1])]
    BY DEF Run, Layer
  <1> HIDE DEF F
  <1>3. Nat \subseteq Good
    <2>1. 0 \in Good
      <3> DEFINE g == [n \in 0 .. 0 |-> F(0, 0)]
      <3>1. \A n \in 0 .. 0 : F(n, g[n - 1]) = F(0, 0)
        BY <1>1
      <3>2. Solves(g, 0)
        BY <3>1
      <3> QED BY <3>2
    <2>2. ASSUME NEW m \in Nat, m \in Good PROVE m + 1 \in Good
      <3>1. PICK g : Solves(g, m)
        BY <2>2
      <3> DEFINE h == [n \in 0 .. m + 1 |-> IF n = m + 1 THEN F(m + 1, g[m]) ELSE g[n]]
      <3>2. \A n \in 0 .. m : h[n] = g[n] /\ g[n] = F(n, g[n - 1])
        BY <3>1
      <3>3. ASSUME NEW n \in 0 .. m + 1 PROVE h[n] = F(n, h[n - 1])
        <4>1. CASE n = 0
          BY <1>1, <3>2, <4>1
        <4>2. CASE n \in 1 .. m
          <5>1. n - 1 \in 0 .. m /\ n \in 0 .. m
            BY <4>2
          <5> QED BY <3>2, <5>1
        <4>3. CASE n = m + 1
          <5>1. h[m] = g[m] /\ (m + 1) - 1 = m /\ h[m + 1] = F(m + 1, g[m])
            BY <3>2
          <5> QED BY <4>3, <5>1
        <4> QED BY <4>1, <4>2, <4>3
      <3>4. Solves(h, m + 1)
        BY <3>3
      <3> HIDE DEF h, Solves
      <3> QED BY <3>4
    <2> HIDE DEF Good
    <2> QED BY <2>1, <2>2, SetInduction
  <1>4. ASSUME NEW g, NEW h, NEW m \in Nat, NEW k \in Nat, Solves(g, m), Solves(h, k), m <= k
        PROVE  g[m] = h[m]
    <2> DEFINE Same == {n \in Nat : n <= m => g[n] = h[n]}
    <2>1. 0 \in Same
      <3>1. g[0] = F(0, g[0 - 1]) /\ h[0] = F(0, h[0 - 1])
        BY <1>4
      <3> QED BY <1>1, <3>1
    <2>2. ASSUME NEW n \in Nat, n \in Same PROVE n + 1 \in Same
      <3> SUFFICES ASSUME n + 1 <= m PROVE g[n + 1] = h[n + 1]
        OBVIOUS
      <3>1. n + 1 \in 0 .. m /\ n + 1 \in 0 .. k /\ (n + 1) - 1 = n
        BY <1>4
      <3>2. g[n + 1] = F(n + 1, g[n]) /\ h[n + 1] = F(n + 1, h[n])
        BY <1>4, <3>1
      <3> QED BY <2>2, <3>1, <3>2
    <2> HIDE DEF Same
    <2>3. m \in Same
      BY <2>1, <2>2, SetInduction
    <2> QED BY <2>3 DEF Same
  <1> DEFINE Sol(m) == CHOOSE g : Solves(g, m)
             f == [n \in Nat |-> Sol(n)[n]]
  <1>5. \A m \in Nat : Solves(Sol(m), m)
    BY <1>3
  <1>6. ASSUME NEW n \in Nat PROVE Sol(n)[n] = F(n, f[n - 1])
    <2> HIDE DEF Sol
    <2>1. Sol(n)[n] = F(n, Sol(n)[n - 1])
      <3>1. Sol(n) = [i \in 0 .. n |-> F(i, Sol(n)[i - 1])]
        BY <1>5
      <3>2. n \in 0 .. n
        OBVIOUS
      <3> QED BY <3>1, <3>2, Zenon
    <2>2. CASE n = 0
      BY <1>1, <2>1, <2>2
    <2>3. CASE n # 0
      <3>1. n - 1 \in Nat /\ n - 1 <= n
        BY <2>3
      <3> HIDE DEF Solves
      <3>2. Sol(n - 1)[n - 1] = Sol(n)[n - 1]
        BY <1>4, <1>5, <3>1
      <3>3. f[n - 1] = Sol(n - 1)[n - 1]
        BY <3>1
      <3> QED BY <2>1, <3>2, <3>3
    <2> QED BY <2>2, <2>3
  <1>7. f = [n \in Nat |-> F(n, f[n - 1])]
    <2> HIDE DEF Sol
    <2> QED BY <1>6, Zenon
  <1> HIDE DEF f
  <1>8. Run(c, q) = [n \in Nat |-> F(n, Run(c, q)[n - 1])]
    BY <1>2, <1>7
  <1>9. \A n \in Nat : Run(c, q)[n] = F(n, Run(c, q)[n - 1])
    BY <1>8
  <1> QED BY <1>9 DEF F

-----------------------------------------------------------------------------
(* What a chain can come to                                                *)

\* A finished run of a chain.
Ending == [s : Context, err : Nat, panic : BOOLEAN]

LEMMA ResultTyped ==
  ASSUME NEW s \in Context, NEW err \in Nat
  PROVE  Result(s, err) \in Ending /\ Panics(s) \in Ending
  BY DEF Result, Panics, Ending

LEMMA AroundTyped ==
  ASSUME NEW k, NEW q, NEW r \in Ending
  PROVE  Around(k, q, r) \in Ending
  <1>1. r.s \in Context /\ r.err \in Nat
    BY DEF Ending
  <1>2. Up(k, q, r.s, r.err).s \in Context /\ Up(k, q, r.s, r.err).err \in Nat
    BY <1>1, UpTyped
  <1> DEFINE code == 500
  <1>3. code \in Nat
    OBVIOUS
  <1> HIDE DEF code
  <1>4. Result(r.s, code) \in Ending
    BY <1>1, <1>3, ResultTyped
  <1>5. Result(Up(k, q, r.s, r.err).s, Up(k, q, r.s, r.err).err) \in Ending
    BY <1>2, ResultTyped
  <1> USE DEF code
  <1> QED BY <1>4, <1>5 DEF Around

LEMMA HandlerTyped ==
  ASSUME NEW k \in Terminal, NEW s \in Context
  PROVE  RunHandler(k, s) \subseteq Ending
  <1>1. Panics(s) \in Ending /\ \A err \in Nat : Result(Streamed(s), err) \in Ending
    BY CopiesTyped, ResultTyped
  <1>2. CASE k \in Panicking \cup {"hang", "stream"}
    <2>1. \/ RunHandler(k, s) \subseteq {Panics(s)}
          \/ \A r \in RunHandler(k, s) : \E err \in {0, 500} : r = Result(Streamed(s), err)
      BY <1>2 DEF RunHandler, Panicking
    <2> QED BY <1>1, <2>1
  <1>3. CASE k \in Returning
    <2>1. Returns(k, s).s \in Context /\ Returns(k, s).err \in Nat
      BY <1>3, ReturnsTyped DEF Outcome
    <2>2. RunHandler(k, s) = {Result(Returns(k, s).s, Returns(k, s).err)}
      BY <1>3 DEF RunHandler, Returning
    <2> QED BY <2>1, <2>2, ResultTyped
  <1> QED BY <1>2, <1>3 DEF Returning

LEMMA ElementTyped ==
  ASSUME NEW k, NEW q, NEW s \in Context, NEW below \in [Context -> SUBSET Ending]
  PROVE  RunElement(k, q, s, below) \subseteq Ending
  <1>1. CASE k \in Terminal
    <2>1. k # "timeout"
      BY <1>1 DEF Terminal, Handlers
    <2>2. RunElement(k, q, s, below) = RunHandler(k, s)
      BY <1>1, <2>1 DEF RunElement
    <2> QED BY <1>1, <2>2, HandlerTyped
  <1>2. CASE k = "timeout"
    <2> DEFINE code == 408
    <2>1. code \in Nat /\ k \notin Terminal
      BY <1>2 DEF Terminal, Handlers
    <2>2. \A r \in below[Copied(s)] : CopyBack(s, r.s) \in Context /\ r.err \in Nat
      BY CopiesTyped DEF Ending
    <2>3. RunElement(k, q, s, below)
            = {Result(s, code)} \cup {Result(CopyBack(s, r.s), r.err) : r \in below[Copied(s)]}
      BY <1>2, <2>1 DEF RunElement
    <2> HIDE DEF code
    <2> QED BY <2>1, <2>2, <2>3, ResultTyped
  <1>3. CASE k \notin Terminal \cup {"timeout"}
    <2>1. \A o \in Down(k, q, s) : o.s \in Context /\ o.err \in Nat
      BY DownTyped DEF Outcome
    <2>2. \A o \in Down(k, q, s) : \A r \in below[o.s] : Around(k, q, r) \in Ending
      BY <2>1, AroundTyped
    <2>3. \A o \in Down(k, q, s) : Result(o.s, o.err) \in Ending
      BY <2>1, ResultTyped
    <2>4. RunElement(k, q, s, below) =
            UNION {IF o.go THEN {Around(k, q, r) : r \in below[o.s]} ELSE {Result(o.s, o.err)} :
                     o \in Down(k, q, s)}
      BY <1>3 DEF RunElement
    <2> QED BY <2>2, <2>3, <2>4
  <1> QED BY <1>1, <1>2, <1>3

\* The results of the elements from i on.
From(c, q, i) == Run(c, q)[Len(c) + 1 - i]

LEMMA RunTyped ==
  ASSUME NEW c, NEW q
  PROVE  \A n \in Nat : Run(c, q)[n] \in [Context -> SUBSET Ending]
  <1> DEFINE T == {n \in Nat : Run(c, q)[n] \in [Context -> SUBSET Ending]}
  <1>1. ASSUME NEW n \in Nat, n = 0 \/ Run(c, q)[n - 1] \in [Context -> SUBSET Ending]
        PROVE  Run(c, q)[n] \in [Context -> SUBSET Ending]
    <2>1. Run(c, q)[n] = Layer(c, q, n, Run(c, q)[n - 1])
      BY RunUnfolds
    <2>2. CASE n = 0
      BY <2>1, <2>2 DEF Layer
    <2>3. CASE n # 0
      <3> DEFINE below == Run(c, q)[n - 1]
                 k == c[Len(c) + 1 - n]
      <3>1. below \in [Context -> SUBSET Ending]
        BY <1>1, <2>3
      <3>2. Layer(c, q, n, below) = [s \in Context |-> RunElement(k, q, s, below)]
        BY <2>3 DEF Layer
      <3> HIDE DEF below, k
      <3>3. \A s \in Context : RunElement(k, q, s, below) \in SUBSET Ending
        BY <3>1, ElementTyped
      <3>4. Layer(c, q, n, below) \in [Context -> SUBSET Ending]
        BY <3>2, <3>3
      <3> QED BY <2>1, <3>4 DEF below
    <2> QED BY <2>2, <2>3
  <1>2. 0 \in T
    BY <1>1
  <1>3. ASSUME NEW n \in Nat, n \in T PROVE n + 1 \in T
    <2>1. (n + 1) - 1 = n /\ n + 1 \in Nat
      OBVIOUS
    <2> QED BY <1>1, <1>3, <2>1
  <1> HIDE DEF T
  <1>4. Nat \subseteq T
    BY <1>2, <1>3, SetInduction
  <1> QED BY <1>4 DEF T

LEMMA FromUnfolds ==
  ASSUME NEW c, Len(c) \in Nat, NEW q, NEW i \in 1 .. Len(c)
  PROVE  /\ From(c, q, i + 1) \in [Context -> SUBSET Ending]
         /\ \A s \in Context : From(c, q, i)[s] = RunElement(c[i], q, s, From(c, q, i + 1))
  <1> DEFINE n == Len(c) + 1 - i
  <1>1. /\ n \in Nat /\ n # 0 /\ n - 1 \in Nat
        /\ Len(c) + 1 - n = i /\ Len(c) + 1 - (i + 1) = n - 1
    OBVIOUS
  <1>2. Run(c, q)[n] = Layer(c, q, n, Run(c, q)[n - 1])
    BY <1>1, RunUnfolds
  <1>3. Run(c, q)[n - 1] \in [Context -> SUBSET Ending]
    BY <1>1, RunTyped
  <1>4. From(c, q, i) = Run(c, q)[n] /\ From(c, q, i + 1) = Run(c, q)[n - 1]
    BY <1>1 DEF From
  <1> HIDE DEF n
  <1>5. Layer(c, q, n, Run(c, q)[n - 1])
          = [s \in Context |-> RunElement(c[i], q, s, Run(c, q)[n - 1])]
    BY <1>1 DEF Layer
  <1> QED BY <1>2, <1>3, <1>4, <1>5

-----------------------------------------------------------------------------
(* A run in progress                                                       *)

\* Whichever of S the elements from i on come to, the elements between b and i
\* make of it a result in goal.
Leads(c, q, b, i, S, goal) ==
  \E R : /\ R[b + 1] \subseteq goal /\ S \subseteq R[i]
         /\ \A j \in b + 1 .. i - 1 : \A r \in R[j + 1] : Around(c[j], q, r) \in R[j]

LEMMA LeadsNowhere ==
  ASSUME NEW c, NEW q, NEW b \in Nat, NEW S, NEW goal
  PROVE  Leads(c, q, b, b + 1, S, goal) <=> S \subseteq goal
  <1>1. Leads(c, q, b, b + 1, S, goal) => S \subseteq goal
    BY DEF Leads
  <1>2. ASSUME S \subseteq goal PROVE Leads(c, q, b, b + 1, S, goal)
    <2> DEFINE R == [j \in Nat |-> S]
    <2>1. R[b + 1] = S /\ \A j : j \notin b + 1 .. (b + 1) - 1
      OBVIOUS
    <2> HIDE DEF R
    <2> QED BY <1>2, <2>1 DEF Leads
  <1> QED BY <1>1, <1>2

LEMMA LeadsLess ==
  ASSUME NEW c, NEW q, NEW b, NEW i, NEW S, NEW goal, Leads(c, q, b, i, S, goal),
         NEW T, T \subseteq S
  PROVE  Leads(c, q, b, i, T, goal)
  <1>1. PICK R : /\ R[b + 1] \subseteq goal /\ S \subseteq R[i]
                 /\ \A j \in b + 1 .. i - 1 : \A r \in R[j + 1] : Around(c[j], q, r) \in R[j]
    BY DEF Leads
  <1>2. T \subseteq R[i]
    BY <1>1
  <1> QED BY <1>1, <1>2 DEF Leads

\* What element i makes of a result is on the way if the result is.
LEMMA LeadsUp ==
  ASSUME NEW c, NEW q, NEW b \in Nat, NEW i \in Nat, b < i, NEW r, NEW goal,
         Leads(c, q, b, i + 1, {r}, goal)
  PROVE  Leads(c, q, b, i, {Around(c[i], q, r)}, goal)
  <1>1. PICK R : /\ R[b + 1] \subseteq goal /\ {r} \subseteq R[i + 1]
                 /\ \A j \in b + 1 .. (i + 1) - 1 : \A t \in R[j + 1] : Around(c[j], q, t) \in R[j]
    BY DEF Leads
  <1>2. i \in b + 1 .. (i + 1) - 1 /\ \A j \in b + 1 .. i - 1 : j \in b + 1 .. (i + 1) - 1
    OBVIOUS
  <1>3. {Around(c[i], q, r)} \subseteq R[i]
    BY <1>1, <1>2
  <1> QED BY <1>1, <1>2, <1>3 DEF Leads

\* And the results are on the way if what element i makes of them is.
LEMMA LeadsDown ==
  ASSUME NEW c, NEW q, NEW b \in Nat, NEW i \in Nat, b < i, NEW S, NEW goal,
         Leads(c, q, b, i, {Around(c[i], q, r) : r \in S}, goal)
  PROVE  Leads(c, q, b, i + 1, S, goal)
  <1>1. PICK R : /\ R[b + 1] \subseteq goal /\ {Around(c[i], q, r) : r \in S} \subseteq R[i]
                 /\ \A j \in b + 1 .. i - 1 : \A t \in R[j + 1] : Around(c[j], q, t) \in R[j]
    BY DEF Leads
  <1> DEFINE P == [j \in Nat |-> IF j = i + 1 THEN S ELSE R[j]]
  <1>2. P[i + 1] = S /\ \A j \in Nat : j # i + 1 => P[j] = R[j]
    OBVIOUS
  <1> HIDE DEF P
  <1>3. P[b + 1] \subseteq goal
    BY <1>1, <1>2
  <1>4. ASSUME NEW j \in b + 1 .. (i + 1) - 1, NEW t \in P[j + 1]
        PROVE  Around(c[j], q, t) \in P[j]
    <2>1. j \in Nat /\ j # i + 1 /\ j + 1 \in Nat
      OBVIOUS
    <2>2. CASE j = i
      BY <1>1, <1>2, <1>4, <2>1, <2>2
    <2>3. CASE j # i
      <3>1. j \in b + 1 .. i - 1 /\ j + 1 # i + 1
        BY <2>3
      <3> QED BY <1>1, <1>2, <1>4, <2>1, <3>1
    <2> QED BY <2>2, <2>3
  <1> QED BY <1>2, <1>3, <1>4 DEF Leads

-----------------------------------------------------------------------------
(* The results of one element                                              *)

LEMMA FromMiddleware ==
  ASSUME NEW c, Len(c) \in Nat, NEW q, NEW i \in 1 .. Len(c), NEW s \in Context,
         c[i] \notin Terminal \cup {"timeout"}, NEW o \in Down(c[i], q, s)
  PROVE  /\ o.go => {Around(c[i], q, r) : r \in From(c, q, i + 1)[o.s]} \subseteq From(c, q, i)[s]
         /\ ~o.go => Result(o.s, o.err) \in From(c, q, i)[s]
  <1> DEFINE k == c[i]
             below == From(c, q, i + 1)
  <1>1. From(c, q, i)[s] = RunElement(k, q, s, below)
    BY FromUnfolds
  <1> HIDE DEF k, below
  <1>2. RunElement(k, q, s, below) =
          UNION {IF p.go THEN {Around(k, q, r) : r \in below[p.s]} ELSE {Result(p.s, p.err)} :
                   p \in Down(k, q, s)}
    BY DEF RunElement, k
  <1>3. o \in Down(k, q, s)
    BY DEF k
  <1>4. /\ o.go => {Around(k, q, r) : r \in below[o.s]} \subseteq RunElement(k, q, s, below)
        /\ ~o.go => Result(o.s, o.err) \in RunElement(k, q, s, below)
    BY <1>2, <1>3
  <1> QED BY <1>1, <1>4 DEF k, below

\* And nothing else is among them.
LEMMA FromMiddlewareOnly ==
  ASSUME NEW c, Len(c) \in Nat, NEW q, NEW i \in 1 .. Len(c), NEW s \in Context,
         c[i] \notin Terminal \cup {"timeout"}, NEW t \in From(c, q, i)[s]
  PROVE  \E o \in Down(c[i], q, s) :
           \/ o.go /\ \E r \in From(c, q, i + 1)[o.s] : t = Around(c[i], q, r)
           \/ ~o.go /\ t = Result(o.s, o.err)
  <1> DEFINE k == c[i]
             below == From(c, q, i + 1)
  <1>1. t \in RunElement(k, q, s, below)
    BY FromUnfolds
  <1> HIDE DEF k, below
  <1>2. RunElement(k, q, s, below) =
          UNION {IF p.go THEN {Around(k, q, r) : r \in below[p.s]} ELSE {Result(p.s, p.err)} :
                   p \in Down(k, q, s)}
    BY DEF RunElement, k
  <1>3. \E o \in Down(k, q, s) :
          \/ o.go /\ \E r \in below[o.s] : t = Around(k, q, r)
          \/ ~o.go /\ t = Result(o.s, o.err)
    <2>1. PICK o \in Down(k, q, s) :
            t \in IF o.go THEN {Around(k, q, r) : r \in below[o.s]} ELSE {Result(o.s, o.err)}
      BY <1>1, <1>2, Zenon
    <2>2. o.go => t \in {Around(k, q, r) : r \in below[o.s]}
      BY <2>1
    <2>3. ~o.go => t = Result(o.s, o.err)
      BY <2>1
    <2>4. o.go => \E r \in below[o.s] : t = Around(k, q, r)
      BY <2>2
    <2> QED BY <2>3, <2>4
  <1> QED BY <1>3 DEF k, below

\* The results of the elements from i on are results, and there are none of no
\* elements.
LEMMA FromTyped ==
  ASSUME NEW c, Len(c) \in Nat, NEW q, NEW i \in 1 .. Len(c) + 1, NEW s \in Context
  PROVE  /\ From(c, q, i)[s] \subseteq Ending
         /\ From(c, q, Len(c) + 1)[s] = {}
  <1>1. Len(c) + 1 - i \in Nat /\ Len(c) + 1 - (Len(c) + 1) = 0
    OBVIOUS
  <1>2. From(c, q, i)[s] \subseteq Ending
    BY <1>1, RunTyped DEF From
  <1>3. Run(c, q)[0] = Layer(c, q, 0, Run(c, q)[0 - 1])
    BY RunUnfolds
  <1>4. Run(c, q)[0][s] = {}
    BY <1>3 DEF Layer
  <1> QED BY <1>1, <1>2, <1>4 DEF From

LEMMA FromHandler ==
  ASSUME NEW c, Len(c) \in Nat, NEW q, NEW i \in 1 .. Len(c), NEW s \in Context,
         c[i] \in Terminal
  PROVE  From(c, q, i)[s] = RunHandler(c[i], s)
  <1> DEFINE k == c[i]
             below == From(c, q, i + 1)
  <1>1. From(c, q, i)[s] = RunElement(k, q, s, below)
    BY FromUnfolds
  <1>2. k \in Terminal /\ k # "timeout"
    BY DEF Terminal, Handlers
  <1> HIDE DEF k, below
  <1>3. RunElement(k, q, s, below) = RunHandler(k, s)
    BY <1>2 DEF RunElement
  <1> QED BY <1>1, <1>3 DEF k

LEMMA HandlerResults ==
  ASSUME NEW s
  PROVE  /\ \A k \in Returning :
              RunHandler(k, s) = {Result(Returns(k, s).s, Returns(k, s).err)}
         /\ \A k \in Panicking : RunHandler(k, s) = {Panics(s)}
         /\ RunHandler("hang", s) = {}
         /\ RunHandler("stream", s) =
              {Result(Streamed(s), err) : err \in {e \in {0, 500} : e = 0 => Flushes <= PipeCap}}
  BY DEF RunHandler, Returning, Panicking

LEMMA FromTimeout ==
  ASSUME NEW c, Len(c) \in Nat, NEW q, NEW i \in 1 .. Len(c), NEW s \in Context,
         c[i] = "timeout", NEW code, code = 408
  PROVE  /\ Result(s, code) \in From(c, q, i)[s]
         /\ \A r \in From(c, q, i + 1)[Copied(s)] :
              Result(CopyBack(s, r.s), r.err) \in From(c, q, i)[s]
         /\ \A t \in From(c, q, i)[s] :
              \/ t = Result(s, code)
              \/ \E r \in From(c, q, i + 1)[Copied(s)] : t = Result(CopyBack(s, r.s), r.err)
  <1> DEFINE k == c[i]
             below == From(c, q, i + 1)
  <1>1. From(c, q, i)[s] = RunElement(k, q, s, below)
    BY FromUnfolds
  <1>2. k \notin Terminal /\ k = "timeout"
    BY DEF Terminal, Handlers
  <1> HIDE DEF k, below
  <1>3. RunElement(k, q, s, below) =
          {Result(s, code)} \cup {Result(CopyBack(s, r.s), r.err) : r \in below[Copied(s)]}
    BY <1>2 DEF RunElement
  <1>4. /\ Result(s, code) \in RunElement(k, q, s, below)
        /\ \A r \in below[Copied(s)] :
             Result(CopyBack(s, r.s), r.err) \in RunElement(k, q, s, below)
        /\ \A t \in RunElement(k, q, s, below) :
             \/ t = Result(s, code)
             \/ \E r \in below[Copied(s)] : t = Result(CopyBack(s, r.s), r.err)
    BY <1>3
  <1> QED BY <1>1, <1>4 DEF below

\* In particular, what is copied back.
LEMMA FromCopy ==
  ASSUME NEW c, Len(c) \in Nat, NEW q, NEW i \in 1 .. Len(c), NEW s \in Context,
         c[i] = "timeout", NEW r \in From(c, q, i + 1)[Copied(s)]
  PROVE  Result(CopyBack(s, r.s), r.err) \in From(c, q, i)[s]
  <1>1. PICK code : code = 408
    OBVIOUS
  <1> QED BY <1>1, FromTimeout

-----------------------------------------------------------------------------
(* The types                                                               *)

LEMMA AnswerTyped ==
  ASSUME NEW s \in Context
  PROVE  Answer(s) \in Response
  BY DEF Answer, Response, Context

-----------------------------------------------------------------------------
(* The invariant                                                           *)

Place == [mode : Modes, at : Nat, base : Nat, err : Nat]

Typed ==
  /\ req \in Request /\ chain \in Seq(Kind)
  /\ phase \in {"read", "run", "answered", "crashed"}
  /\ ctx \in [Depth -> Context]
  /\ pc \in [Depth -> Place]
  /\ result \in [Depth -> Nat]
  /\ flushed \in 0 .. Flushes
  /\ answer \in Response

\* Nothing has run before the dispatch has begun, or when it only redirects.
NotBegun ==
  phase = "read" \/ req.route = "slash" =>
    \A d \in Depth : /\ pc[d] = Idle /\ result[d] = NoResult
                     /\ ctx[d].body = <<>> /\ ctx[d].stream = <<>>

\* A goroutine stays between the Timeout that started it and the chain's end.
InChain ==
  /\ phase # "read" /\ req.route # "slash" => chain # <<>> /\ chain[Len(chain)] = Last
  /\ \A d \in Depth :
       /\ pc[d].at \in pc[d].base .. Len(chain)
       /\ pc[d].mode \in {"down", "wait", "stream"} => pc[d].at > pc[d].base

\* Who has sent a result is done, and who has started no goroutine has none.
Sent ==
  \A d \in Depth :
    /\ result[d] # NoResult => pc[d].mode = "done"
    /\ pc[d].mode \in {"idle", "down"} /\ d < MaxTimeouts =>
         pc[d + 1].mode = "idle" /\ result[d + 1] = NoResult
    /\ pc[d].mode = "wait" => d < MaxTimeouts

Inv == Typed /\ NotBegun /\ InChain /\ Sent

\* What an action of goroutine d does to the others: nothing.
Local(d) ==
  /\ pc[d].mode \notin {"idle", "done"}
  /\ ctx' \in [Depth -> Context] /\ \A e \in Depth \ {d} : ctx'[e] = ctx[e]
  /\ pc' \in [Depth -> Place] /\ \A e \in Depth \ {d} : pc'[e] = pc[e]
  /\ pc'[d].base = pc[d].base /\ pc'[d].at \in pc'[d].base .. Len(chain)
  /\ pc'[d].mode \notin {"idle", "wait"}
  /\ pc'[d].mode = "down" => pc[d].mode = "down"
  /\ pc'[d].mode \in {"down", "stream"} => pc'[d].at > pc'[d].base
  /\ flushed' \in 0 .. Flushes
  /\ UNCHANGED <<req, chain, phase, result, answer>>

LEMMA MoveTyped ==
  ASSUME pc \in [Depth -> Place], NEW d \in Depth, NEW mode \in Modes, NEW at \in Nat,
         NEW err \in Nat, Move(d, mode, at, err)
  PROVE  /\ pc' \in [Depth -> Place]
         /\ pc'[d].mode = mode /\ pc'[d].at = at /\ pc'[d].err = err
         /\ pc'[d].base = pc[d].base
         /\ \A e \in Depth \ {d} : pc'[e] = pc[e]
  BY DEF Move, Place

\* The context of d after a step that writes it.
LEMMA ContextTyped ==
  ASSUME ctx \in [Depth -> Context], NEW d \in Depth, NEW s \in Context,
         ctx' = [ctx EXCEPT ![d] = s]
  PROVE  ctx' \in [Depth -> Context] /\ ctx'[d] = s /\ \A e \in Depth \ {d} : ctx'[e] = ctx[e]
  OBVIOUS

\* Whoever moves has begun, and its element is one of the chain.
LEMMA Begun ==
  ASSUME Inv, NEW d \in Depth, pc[d].mode # "idle"
  PROVE  /\ phase # "read" /\ req.route # "slash"
         /\ chain # <<>> /\ chain[Len(chain)] = Last /\ Last \in Terminal
         /\ Len(chain) \in Nat
         /\ pc[d] \in Place /\ ctx[d] \in Context
         /\ pc[d].at \in pc[d].base .. Len(chain)
         /\ pc[d].at = Len(chain) => Element(d) \in Terminal
  <1>1. phase # "read" /\ req.route # "slash"
    BY DEF Inv, NotBegun, Idle
  <1>2. Last \in Terminal
    BY RequestAssumption DEF Inv, Typed, Last, Terminal
  <1> QED BY <1>1, <1>2 DEF Inv, Typed, InChain, Element

LEMMA DescendLocal ==
  ASSUME Inv, NEW d \in Depth, Descend(d) PROVE Local(d)
  <1>1. /\ pc[d].mode = "down" /\ Element(d) \notin Terminal
        /\ pc \in [Depth -> Place] /\ ctx \in [Depth -> Context]
    BY DEF Descend, At, Inv, Typed
  <1>2. PICK o \in Down(Element(d), req, ctx[d]) :
          /\ ctx' = [ctx EXCEPT ![d] = o.s]
          /\ IF o.go THEN Move(d, "down", pc[d].at + 1, 0)
                     ELSE Move(d, "up", pc[d].at - 1, o.err)
    BY DEF Descend
  <1>3. /\ ctx[d] \in Context /\ pc[d] \in Place /\ Len(chain) \in Nat
        /\ pc[d].at \in pc[d].base .. Len(chain) /\ pc[d].at # Len(chain)
        /\ pc[d].at > pc[d].base
    BY <1>1, Begun DEF Inv, InChain
  <1>4. o.s \in Context /\ o.err \in Nat
    BY <1>3, DownTyped DEF Outcome
  <1>5. ctx' \in [Depth -> Context] /\ \A e \in Depth \ {d} : ctx'[e] = ctx[e]
    BY <1>1, <1>2, <1>4, ContextTyped
  <1>6. CASE o.go
    <2>1. pc[d].at + 1 \in Nat /\ pc[d].at + 1 \in pc[d].base .. Len(chain)
      BY <1>3 DEF Place
    <2>2. /\ pc' \in [Depth -> Place] /\ pc'[d].mode = "down" /\ pc'[d].at = pc[d].at + 1
          /\ pc'[d].base = pc[d].base /\ \A e \in Depth \ {d} : pc'[e] = pc[e]
      BY <1>1, <1>2, <1>6, <2>1, MoveTyped DEF Modes
    <2> QED BY <1>1, <1>3, <1>5, <2>1, <2>2 DEF Local, Descend, Inv, Typed, Place
  <1>7. CASE ~o.go
    <2>1. pc[d].at - 1 \in Nat /\ pc[d].at - 1 \in pc[d].base .. Len(chain)
      BY <1>3 DEF Place
    <2>2. /\ pc' \in [Depth -> Place] /\ pc'[d].mode = "up" /\ pc'[d].at = pc[d].at - 1
          /\ pc'[d].base = pc[d].base /\ \A e \in Depth \ {d} : pc'[e] = pc[e]
      BY <1>1, <1>2, <1>4, <1>7, <2>1, MoveTyped DEF Modes
    <2> QED BY <1>1, <1>3, <1>5, <2>1, <2>2 DEF Local, Descend, Inv, Typed
  <1> QED BY <1>6, <1>7

\* The steps that move up by one element.
LEMMA UpLocal ==
  ASSUME Inv, NEW d \in Depth, NEW mode \in {"up", "panic"}, NEW err \in Nat, NEW s \in Context,
         pc[d].mode \notin {"idle", "done"}, pc[d].at > pc[d].base,
         ctx' = [ctx EXCEPT ![d] = s], Move(d, mode, pc[d].at - 1, err),
         UNCHANGED <<req, chain, phase, result, flushed, answer>>
  PROVE  /\ Local(d)
         /\ pc'[d].mode = mode /\ pc'[d].err = err /\ ctx'[d] = s
  <1>1. /\ pc[d] \in Place /\ Len(chain) \in Nat /\ pc \in [Depth -> Place]
        /\ pc[d].at \in pc[d].base .. Len(chain) /\ ctx \in [Depth -> Context]
        /\ flushed \in 0 .. Flushes
    BY Begun DEF Inv, Typed
  <1>2. pc[d].at - 1 \in Nat /\ pc[d].at - 1 \in pc[d].base .. Len(chain)
    BY <1>1 DEF Place
  <1>3. /\ ctx' \in [Depth -> Context] /\ ctx'[d] = s
        /\ \A e \in Depth \ {d} : ctx'[e] = ctx[e]
    BY <1>1, ContextTyped
  <1>4. /\ pc' \in [Depth -> Place] /\ pc'[d].mode = mode /\ pc'[d].at = pc[d].at - 1
        /\ pc'[d].err = err
        /\ pc'[d].base = pc[d].base /\ \A e \in Depth \ {d} : pc'[e] = pc[e]
    BY <1>1, <1>2, MoveTyped DEF Modes
  <1> QED BY <1>1, <1>2, <1>3, <1>4 DEF Local

\* The steps that stay at an element and change only their goroutine's mode.
LEMMA StayLocal ==
  ASSUME Inv, NEW d \in Depth, NEW mode \in {"stuck", "stream"}, pc[d].mode = "down",
         Move(d, mode, pc[d].at, 0), UNCHANGED <<req, chain, phase, ctx, result, flushed, answer>>
  PROVE  Local(d) /\ pc'[d].mode = mode
  <1>1. /\ pc[d] \in Place /\ Len(chain) \in Nat /\ pc \in [Depth -> Place]
        /\ pc[d].at \in pc[d].base .. Len(chain) /\ ctx \in [Depth -> Context]
        /\ pc[d].at > pc[d].base /\ flushed \in 0 .. Flushes
    BY Begun DEF Inv, Typed, InChain
  <1>2. /\ pc' \in [Depth -> Place] /\ pc'[d].mode = mode /\ pc'[d].at = pc[d].at
        /\ pc'[d].base = pc[d].base /\ \A e \in Depth \ {d} : pc'[e] = pc[e]
    BY <1>1, MoveTyped DEF Modes, Place
  <1> QED BY <1>1, <1>2 DEF Local

LEMMA Same == ASSUME ctx \in [Depth -> Context], NEW d \in Depth, UNCHANGED ctx
              PROVE  ctx' = [ctx EXCEPT ![d] = ctx[d]]
  OBVIOUS

LEMMA HandleLocal ==
  ASSUME Inv, NEW d \in Depth, Handle(d)
  PROVE  LET o == Returns(Element(d), ctx[d])
         IN  Local(d) /\ pc'[d].mode = "up" /\ pc'[d].err = o.err /\ ctx'[d] = o.s
  <1> DEFINE o == Returns(Element(d), ctx[d])
  <1>1. /\ pc[d].mode = "down" /\ pc[d].at > pc[d].base /\ ctx[d] \in Context
        /\ Element(d) \in Returning
    BY Begun DEF Handle, At, Inv, InChain
  <1>2. o.s \in Context /\ o.err \in Nat
    BY <1>1, ReturnsTyped DEF Outcome
  <1>3. /\ ctx' = [ctx EXCEPT ![d] = o.s] /\ Move(d, "up", pc[d].at - 1, o.err)
        /\ UNCHANGED <<req, chain, phase, result, flushed, answer>>
    BY DEF Handle
  <1> HIDE DEF o
  <1>4. Local(d) /\ pc'[d].mode = "up" /\ pc'[d].err = o.err /\ ctx'[d] = o.s
    BY <1>1, <1>2, <1>3, UpLocal, ZenonT(40)
  <1> QED BY <1>4 DEF o

LEMMA PanicLocal ==
  ASSUME Inv, NEW d \in Depth, HandlePanic(d) \/ Unwind(d)
  PROVE  Local(d) /\ pc'[d].mode \in {"up", "panic"} /\ pc'[d].err = 500 /\ ctx'[d] = ctx[d]
  <1>1. ctx \in [Depth -> Context] /\ UNCHANGED ctx
    BY DEF Inv, Typed, HandlePanic, Unwind
  <1>2. ctx' = [ctx EXCEPT ![d] = ctx[d]] /\ ctx[d] \in Context
    BY <1>1, Same
  <1>3. pc[d].mode \in {"down", "panic"} /\ pc[d].at > pc[d].base
    BY DEF HandlePanic, Unwind, At, Inv, InChain
  <1> DEFINE code == 500
  <1>4. /\ Move(d, "up", pc[d].at - 1, code) \/ Move(d, "panic", pc[d].at - 1, code)
        /\ UNCHANGED <<req, chain, phase, result, flushed, answer>>
    BY DEF HandlePanic, Unwind
  <1>5. code \in Nat /\ pc[d].mode \notin {"idle", "done"}
    BY <1>3
  <1> HIDE DEF code
  <1>6. CASE Move(d, "up", pc[d].at - 1, code)
    <2>1. Local(d) /\ pc'[d].mode = "up" /\ pc'[d].err = code /\ ctx'[d] = ctx[d]
      BY <1>2, <1>3, <1>4, <1>5, <1>6, UpLocal
    <2> QED BY <2>1 DEF code
  <1>7. CASE Move(d, "panic", pc[d].at - 1, code)
    <2>1. Local(d) /\ pc'[d].mode = "panic" /\ pc'[d].err = code /\ ctx'[d] = ctx[d]
      BY <1>2, <1>3, <1>4, <1>5, <1>7, UpLocal
    <2> QED BY <2>1 DEF code
  <1> QED BY <1>4, <1>6, <1>7

LEMMA AscendLocal ==
  ASSUME Inv, NEW d \in Depth, Ascend(d)
  PROVE  LET o == Up(Element(d), req, ctx[d], pc[d].err)
         IN  Local(d) /\ pc'[d].mode = "up" /\ pc'[d].err = o.err /\ ctx'[d] = o.s
  <1> DEFINE o == Up(Element(d), req, ctx[d], pc[d].err)
  <1>1. /\ pc[d].mode = "up" /\ pc[d].at > pc[d].base /\ ctx[d] \in Context
        /\ pc[d].err \in Nat
    BY Begun DEF Ascend, At, Place
  <1>2. o.s \in Context /\ o.err \in Nat
    BY <1>1, UpTyped
  <1>3. /\ ctx' = [ctx EXCEPT ![d] = o.s] /\ Move(d, "up", pc[d].at - 1, o.err)
        /\ UNCHANGED <<req, chain, phase, result, flushed, answer>>
    BY DEF Ascend
  <1> HIDE DEF o
  <1>4. Local(d) /\ pc'[d].mode = "up" /\ pc'[d].err = o.err /\ ctx'[d] = o.s
    BY <1>1, <1>2, <1>3, UpLocal
  <1> QED BY <1>4 DEF o

LEMMA StreamEndLocal ==
  ASSUME Inv, NEW d \in Depth, StreamEnd(d) \/ StreamFail(d) PROVE Local(d)
  <1>1. PICK err \in Nat : Move(d, "up", pc[d].at - 1, err)
    BY DEF StreamEnd, StreamFail
  <1>2. /\ pc[d].mode = "stream" /\ pc[d].at > pc[d].base /\ ctx[d] \in Context
        /\ ctx' = [ctx EXCEPT ![d] = Streamed(ctx[d])]
        /\ UNCHANGED <<req, chain, phase, result, flushed, answer>>
    BY Begun DEF StreamEnd, StreamFail, At, Inv, InChain
  <1>3. Streamed(ctx[d]) \in Context
    BY <1>2, CopiesTyped
  <1> QED BY <1>1, <1>2, <1>3, UpLocal

\* The panic of a writer function changes nothing but the phase.
LEMMA StreamPanicKeeps ==
  ASSUME Inv, NEW d \in Depth, StreamPanic(d)
  PROVE  Inv' /\ phase' = "crashed" /\ UNCHANGED <<req, chain, ctx, pc, result, answer>>
  <1>1. /\ pc[d].mode = "stream" /\ phase' = "crashed"
        /\ UNCHANGED <<req, chain, ctx, pc, result, flushed, answer>>
    BY DEF StreamPanic, At
  <1>2. phase # "read" /\ req.route # "slash" /\ Last' = Last
    BY <1>1, Begun DEF Last
  <1> QED BY <1>1, <1>2 DEF Inv, Typed, NotBegun, InChain, Sent

LEMMA FlushLocal ==
  ASSUME Inv, NEW d \in Depth, Flush(d) PROVE Local(d)
  <1>1. flushed + 1 \in 0 .. Flushes
    BY FlushAssumption DEF Flush, Inv, Typed
  <1> QED BY <1>1 DEF Flush, At, Local, Inv, Typed, InChain

LEMMA ReceiveLocal ==
  ASSUME Inv, NEW d \in Depth, d + 1 \in Depth, Receive(d)
  PROVE  /\ Local(d) /\ pc'[d].mode = "up" /\ pc'[d].err = result[d + 1]
         /\ ctx'[d] = CopyBack(ctx[d], ctx[d + 1])
  <1>1. /\ pc[d].mode = "wait" /\ pc[d].at > pc[d].base
        /\ ctx[d] \in Context /\ ctx[d + 1] \in Context /\ result[d + 1] \in Nat
        /\ ctx' = [ctx EXCEPT ![d] = CopyBack(ctx[d], ctx[d + 1])]
        /\ Move(d, "up", pc[d].at - 1, result[d + 1])
        /\ UNCHANGED <<req, chain, phase, result, flushed, answer>>
    BY Begun DEF Receive, At, Inv, Typed, InChain
  <1> DEFINE s == CopyBack(ctx[d], ctx[d + 1])
             err == result[d + 1]
  <1>2. s \in Context
    BY <1>1, CopiesTyped
  <1>3. /\ err \in Nat /\ ctx' = [ctx EXCEPT ![d] = s] /\ Move(d, "up", pc[d].at - 1, err)
        /\ pc[d].mode \notin {"idle", "done"}
    BY <1>1
  <1> HIDE DEF s, err
  <1>4. Local(d) /\ pc'[d].mode = "up" /\ pc'[d].err = err /\ ctx'[d] = s
    BY <1>1, <1>2, <1>3, UpLocal
  <1> QED BY <1>4 DEF s, err

LEMMA ExpireLocal ==
  ASSUME Inv, NEW d \in Depth, Expire(d)
  PROVE  Local(d) /\ pc'[d].mode = "up" /\ pc'[d].err = 408 /\ ctx'[d] = ctx[d]
  <1>1. /\ pc[d].mode = "wait" /\ pc[d].at > pc[d].base
        /\ ctx[d] \in Context /\ ctx' = [ctx EXCEPT ![d] = ctx[d]]
        /\ UNCHANGED <<req, chain, phase, result, flushed, answer>>
    BY Begun, Same DEF Expire, At, Inv, Typed, InChain
  <1> DEFINE code == 408
  <1>2. code \in Nat /\ Move(d, "up", pc[d].at - 1, code) /\ pc[d].mode \notin {"idle", "done"}
    BY <1>1 DEF Expire
  <1> HIDE DEF code
  <1>3. Local(d) /\ pc'[d].mode = "up" /\ pc'[d].err = code /\ ctx'[d] = ctx[d]
    BY <1>1, <1>2, UpLocal
  <1> QED BY <1>3 DEF code

LEMMA LocalKeeps ==
  ASSUME Inv, NEW d \in Depth, Local(d) PROVE Inv'
  <1>1. Typed'
    BY DEF Inv, Typed, Local
  <1>2. phase # "read" /\ req.route # "slash"
    BY Begun DEF Local
  <1>3. NotBegun'
    BY <1>2 DEF Local, NotBegun
  <1>4. InChain'
    <2>1. Last' = Last
      BY DEF Local, Last
    <2>2. \A e \in Depth : /\ pc'[e].at \in pc'[e].base .. Len(chain)
                           /\ pc'[e].mode \in {"down", "wait", "stream"} => pc'[e].at > pc'[e].base
      BY DEF Inv, InChain, Local
    <2> QED BY <1>2, <2>1, <2>2 DEF Inv, InChain, Local
  <1>5. Sent'
    <2> SUFFICES ASSUME NEW e \in Depth
                 PROVE  /\ result[e] # NoResult => pc'[e].mode = "done"
                        /\ pc'[e].mode \in {"idle", "down"} /\ e < MaxTimeouts =>
                             pc'[e + 1].mode = "idle" /\ result[e + 1] = NoResult
                        /\ pc'[e].mode = "wait" => e < MaxTimeouts
      BY DEF Sent, Local
    <2>1. result[e] # NoResult => pc'[e].mode = "done"
      BY DEF Inv, Sent, Local
    <2>2. ASSUME pc'[e].mode \in {"idle", "down"}, e < MaxTimeouts
          PROVE  pc'[e + 1].mode = "idle" /\ result[e + 1] = NoResult
      <3>1. e + 1 \in Depth
        BY <2>2, MaxTimeoutsAssumption DEF Depth
      <3>2. pc[e].mode \in {"idle", "down"}
        BY <2>2 DEF Local
      <3>3. pc[e + 1].mode = "idle" /\ result[e + 1] = NoResult
        BY <2>2, <3>2 DEF Inv, Sent
      <3>4. e + 1 # d
        BY <3>3 DEF Local
      <3> QED BY <3>1, <3>3, <3>4 DEF Local
    <2>3. pc'[e].mode = "wait" => e < MaxTimeouts
      BY DEF Inv, Sent, Local
    <2> QED BY <2>1, <2>2, <2>3
  <1> QED BY <1>1, <1>3, <1>4, <1>5 DEF Inv

LEMMA StepLocal ==
  ASSUME Inv, NEW d \in Depth, Step(d) \/ Timer(d) \/ Fault(d),
         ~StartTimeout(d), ~FinishLate(d), ~StreamPanic(d)
  PROVE  Local(d)
  <1>1. CASE HandlePanic(d) \/ Unwind(d)
    BY <1>1, PanicLocal
  <1>2. CASE Hang(d) \/ StreamStart(d)
    BY <1>2, StayLocal DEF Hang, StreamStart, At
  <1>3. CASE Receive(d)
    <2>1. d + 1 \in Depth
      BY <1>3, MaxTimeoutsAssumption DEF Receive, At, Inv, Sent, Depth
    <2> QED BY <1>3, <2>1, ReceiveLocal
  <1>4. CASE Expire(d)
    BY <1>4, ExpireLocal
  <1>5. CASE Handle(d) \/ Ascend(d)
    BY <1>5, HandleLocal, AscendLocal
  <1>6. CASE Descend(d) \/ StreamEnd(d) \/ StreamFail(d) \/ Flush(d)
    BY <1>6, DescendLocal, StreamEndLocal, FlushLocal
  <1> QED BY <1>1, <1>2, <1>3, <1>4, <1>5, <1>6 DEF Step, Timer, Fault

LEMMA StartKeeps ==
  ASSUME Inv, NEW d \in Depth, StartTimeout(d)
  PROVE  /\ Inv' /\ d + 1 \in Depth /\ result[d + 1] = NoResult
         /\ pc'[d] = [pc[d] EXCEPT !.mode = "wait"]
         /\ pc'[d + 1] = [mode |-> "down", at |-> pc[d].at + 1, base |-> pc[d].at, err |-> 0]
         /\ pc'[d].mode = "wait" /\ pc'[d + 1].mode = "down"
         /\ ctx'[d + 1] = Copied(ctx[d])
         /\ \A e \in Depth \ {d, d + 1} : pc'[e] = pc[e]
         /\ \A e \in Depth \ {d + 1} : ctx'[e] = ctx[e]
  <1>1. /\ pc[d].mode = "down" /\ Element(d) = "timeout" /\ d < MaxTimeouts
        /\ ctx' = [ctx EXCEPT ![d + 1] = Copied(ctx[d])]
        /\ UNCHANGED <<req, chain, phase, result, flushed, answer>>
    BY DEF StartTimeout, At
  <1>2. d + 1 \in Depth /\ d + 1 # d
    BY <1>1, MaxTimeoutsAssumption DEF Depth
  <1>3. "timeout" \notin Terminal
    BY DEF Terminal, Handlers
  <1>4. /\ pc[d] \in Place /\ Len(chain) \in Nat /\ pc \in [Depth -> Place]
        /\ pc[d].at \in pc[d].base .. Len(chain) /\ pc[d].at # Len(chain)
        /\ pc[d].at > pc[d].base /\ ctx[d] \in Context /\ ctx \in [Depth -> Context]
        /\ phase # "read" /\ req.route # "slash"
    BY <1>1, <1>3, Begun DEF Inv, Typed, InChain
  <1> DEFINE started == [mode |-> "down", at |-> pc[d].at + 1, base |-> pc[d].at, err |-> 0]
             waits == [pc[d] EXCEPT !.mode = "wait"]
  <1>5. pc' = [pc EXCEPT ![d] = waits, ![d + 1] = started]
    BY <1>4 DEF StartTimeout
  <1>6. /\ started \in Place /\ started.mode = "down"
        /\ started.at \in started.base .. Len(chain) /\ started.at > started.base
    BY <1>4 DEF Place, Modes
  <1>7. /\ waits \in Place /\ waits.mode = "wait"
        /\ waits.at \in waits.base .. Len(chain) /\ waits.at > waits.base
    BY <1>4 DEF Place, Modes
  <1> HIDE DEF started, waits
  <1>8. /\ pc' \in [Depth -> Place] /\ pc'[d] = waits /\ pc'[d + 1] = started
        /\ \A e \in Depth \ {d, d + 1} : pc'[e] = pc[e]
    BY <1>2, <1>4, <1>5, <1>6, <1>7
  <1>9. /\ ctx' \in [Depth -> Context] /\ ctx'[d + 1] = Copied(ctx[d])
        /\ \A e \in Depth \ {d + 1} : ctx'[e] = ctx[e]
    BY <1>1, <1>2, <1>4, CopiesTyped
  <1>10. pc[d + 1].mode = "idle" /\ result[d + 1] = NoResult
    BY <1>1 DEF Inv, Sent
  <1>11. Typed'
    BY <1>1, <1>8, <1>9 DEF Inv, Typed
  <1>12. NotBegun'
    BY <1>1, <1>4 DEF NotBegun
  <1>13. InChain'
    <2>1. Last' = Last
      BY <1>1 DEF Last
    <2>2. \A e \in Depth : /\ pc'[e].at \in pc'[e].base .. Len(chain)
                           /\ pc'[e].mode \in {"down", "wait", "stream"} => pc'[e].at > pc'[e].base
      BY <1>2, <1>6, <1>7, <1>8 DEF Inv, InChain
    <2> QED BY <1>1, <1>4, <2>1, <2>2 DEF Inv, InChain
  <1>14. Sent'
    <2> SUFFICES ASSUME NEW e \in Depth
                 PROVE  /\ result[e] # NoResult => pc'[e].mode = "done"
                        /\ pc'[e].mode \in {"idle", "down"} /\ e < MaxTimeouts =>
                             pc'[e + 1].mode = "idle" /\ result[e + 1] = NoResult
                        /\ pc'[e].mode = "wait" => e < MaxTimeouts
      BY <1>1 DEF Sent
    <2>1. CASE e = d
      BY <1>1, <1>7, <1>8, <2>1 DEF Inv, Sent
    <2>2. CASE e = d + 1
      <3>1. e < MaxTimeouts => /\ e + 1 \in Depth \ {d, d + 1}
                               /\ pc[e + 1].mode = "idle" /\ result[e + 1] = NoResult
        BY <1>2, <1>10, <2>2, MaxTimeoutsAssumption DEF Inv, Sent, Depth
      <3> QED BY <1>6, <1>8, <1>10, <2>2, <3>1
    <2>3. CASE e \in Depth \ {d, d + 1}
      <3>1. pc'[e] = pc[e]
        BY <1>8, <2>3
      <3>2. ASSUME pc[e].mode \in {"idle", "down"}, e < MaxTimeouts
            PROVE  pc'[e + 1].mode = "idle" /\ result[e + 1] = NoResult
        <4>1. e + 1 \in Depth /\ e + 1 # d + 1
          BY <2>3, <3>2, MaxTimeoutsAssumption DEF Depth
        <4>2. pc[e + 1].mode = "idle" /\ result[e + 1] = NoResult
          BY <3>2 DEF Inv, Sent
        <4>3. e + 1 # d
          BY <1>1, <4>2
        <4> QED BY <1>8, <4>1, <4>2, <4>3
      <3> QED BY <3>1, <3>2 DEF Inv, Sent
    <2> QED BY <2>1, <2>2, <2>3
  <1> QED BY <1>2, <1>6, <1>7, <1>8, <1>9, <1>10, <1>11, <1>12, <1>13, <1>14
          DEF Inv, started, waits

LEMMA FinishKeeps ==
  ASSUME Inv, NEW d \in Depth, FinishLate(d)
  PROVE  /\ Inv' /\ result[d] = NoResult /\ result'[d] = pc[d].err
         /\ pc[d].mode \in {"up", "panic"} /\ pc'[d].mode = "done"
         /\ \A e \in Depth \ {d} : pc'[e] = pc[e] /\ result'[e] = result[e]
  <1>1. /\ pc[d].mode \in {"up", "panic"} /\ pc[d] \in Place
        /\ result' = [result EXCEPT ![d] = pc[d].err] /\ Move(d, "done", pc[d].at, pc[d].err)
        /\ UNCHANGED <<req, chain, phase, ctx, flushed, answer>>
    BY DEF FinishLate, Inv, Typed
  <1>2. /\ pc' \in [Depth -> Place] /\ pc'[d].mode = "done" /\ pc'[d].at = pc[d].at
        /\ pc'[d].base = pc[d].base /\ \A e \in Depth \ {d} : pc'[e] = pc[e]
    BY <1>1, MoveTyped DEF Inv, Typed, Place, Modes
  <1>3. /\ result' \in [Depth -> Nat] /\ result'[d] = pc[d].err
        /\ \A e \in Depth \ {d} : result'[e] = result[e]
    BY <1>1 DEF Inv, Typed, Place
  <1>4. result[d] = NoResult /\ phase # "read" /\ req.route # "slash"
    BY <1>1, Begun DEF Inv, Sent
  <1>5. Typed'
    BY <1>1, <1>2, <1>3 DEF Inv, Typed
  <1>6. NotBegun'
    BY <1>1, <1>4 DEF NotBegun
  <1>7. InChain'
    <2>1. Last' = Last
      BY <1>1 DEF Last
    <2> QED BY <1>1, <1>2, <2>1 DEF Inv, InChain
  <1>8. Sent'
    <2> SUFFICES ASSUME NEW e \in Depth
                 PROVE  /\ result'[e] # NoResult => pc'[e].mode = "done"
                        /\ pc'[e].mode \in {"idle", "down"} /\ e < MaxTimeouts =>
                             pc'[e + 1].mode = "idle" /\ result'[e + 1] = NoResult
                        /\ pc'[e].mode = "wait" => e < MaxTimeouts
      BY DEF Sent
    <2>1. ASSUME pc'[e].mode \in {"idle", "down"}, e < MaxTimeouts
          PROVE  pc'[e + 1].mode = "idle" /\ result'[e + 1] = NoResult
      <3>1. e # d /\ pc'[e] = pc[e] /\ e + 1 \in Depth
        BY <1>2, <2>1, MaxTimeoutsAssumption DEF Depth
      <3>2. pc[e + 1].mode = "idle" /\ result[e + 1] = NoResult
        BY <2>1, <3>1 DEF Inv, Sent
      <3>3. e + 1 # d
        BY <1>1, <3>2
      <3> QED BY <1>2, <1>3, <3>1, <3>2, <3>3
    <2>2. /\ result'[e] # NoResult => pc'[e].mode = "done"
          /\ pc'[e].mode = "wait" => e < MaxTimeouts
      BY <1>2, <1>3 DEF Inv, Sent
    <2> QED BY <2>1, <2>2
  <1> QED BY <1>1, <1>2, <1>3, <1>4, <1>5, <1>6, <1>7, <1>8 DEF Inv

LEMMA ServeKeeps ==
  ASSUME Inv, Serve
  PROVE  Inv' /\ UNCHANGED <<ctx, result>>
  <1>0. 0 \in Depth
    BY MaxTimeoutsAssumption DEF Depth
  <1>1. CASE RedirectSlash
    <2>1. ctx[0] \in Context /\ <<>> \in Seq(Content)
      BY <1>0, ContentTyped DEF Inv, Typed
    <2>2. SlashResponse(req, ctx[0]) \in Context
      <3> DEFINE h == [ctx[0].hdr EXCEPT !["location"] = 1]
      <3>1. h \in [Header -> Nat]
        BY <2>1 DEF Context
      <3>2. [ctx[0] EXCEPT !.hdr = h] = [ctx[0] EXCEPT !.hdr["location"] = 1]
        BY <2>1 DEF Context
      <3> HIDE DEF h
      <3>3. [ctx[0] EXCEPT !.hdr = h] \in Context
        BY <2>1, <3>1, FieldTyped
      <3> DEFINE code == IF req.method = "GET" THEN 301 ELSE 308
                 t == [ctx[0] EXCEPT !.hdr["location"] = 1]
      <3>4. code \in Nat /\ t \in Context
        BY <3>2, <3>3
      <3>5. SlashResponse(req, ctx[0]) = SendString(t, code, <<>>)
        BY DEF SlashResponse
      <3> HIDE DEF code, t
      <3> QED BY <2>1, <3>4, <3>5, SendTyped
    <2>3. answer' \in Response
      BY <1>1, <2>2, AnswerTyped DEF RedirectSlash
    <2>4. Typed'
      BY <1>1, <2>3 DEF RedirectSlash, Inv, Typed
    <2>5. NotBegun' /\ InChain'
      BY <1>1 DEF RedirectSlash, Inv, NotBegun, InChain
    <2>6. Sent'
      BY <1>1 DEF RedirectSlash, Inv, Sent
    <2> QED BY <1>1, <2>4, <2>5, <2>6 DEF Inv, RedirectSlash
  <1>2. CASE Begin
    <2>1. /\ phase = "read" /\ req.route # "slash" /\ phase' = "run"
          /\ chain' = Append(chain, Last) /\ chain \in Seq(Kind)
          /\ pc' = [pc EXCEPT ![0] = [@ EXCEPT !.mode = "down", !.at = 1]]
          /\ UNCHANGED <<req, ctx, result, flushed, answer>>
          /\ \A d \in Depth : pc[d] = Idle /\ result[d] = NoResult
      BY <1>2 DEF Begin, Inv, Typed, NotBegun
    <2>2. Last \in Terminal
      BY RequestAssumption DEF Inv, Typed, Last, Terminal
    <2>3. /\ chain' \in Seq(Kind) /\ Len(chain') = Len(chain) + 1 /\ chain' # <<>>
          /\ chain'[Len(chain')] = Last /\ Len(chain) \in Nat
      BY <2>1, <2>2 DEF Kind
    <2> DEFINE begun == [Idle EXCEPT !.mode = "down", !.at = 1]
    <2>4. /\ pc' \in [Depth -> Place]
          /\ pc'[0].mode = "down" /\ pc'[0].at = 1 /\ pc'[0].base = 0
          /\ \A d \in Depth \ {0} : pc'[d] = Idle
      <3>1. begun \in Place /\ begun.mode = "down" /\ begun.at = 1 /\ begun.base = 0
        BY DEF Place, Modes, Idle
      <3>2. pc \in [Depth -> Place] /\ pc' = [pc EXCEPT ![0] = begun]
        BY <1>0, <2>1 DEF Inv, Typed
      <3> HIDE DEF begun
      <3> QED BY <1>0, <2>1, <3>1, <3>2
    <2>5. Typed'
      BY <2>1, <2>3, <2>4 DEF Inv, Typed
    <2>6. NotBegun'
      BY <2>1 DEF NotBegun
    <2>7. InChain'
      <3>1. Last' = Last
        BY <2>1 DEF Last
      <3>2. \A d \in Depth : /\ pc'[d].at \in pc'[d].base .. Len(chain')
                             /\ pc'[d].mode \in {"down", "wait", "stream"} => pc'[d].at > pc'[d].base
        BY <2>3, <2>4 DEF Idle
      <3> QED BY <2>3, <3>1, <3>2 DEF InChain
    <2>8. Sent'
      <3>1. \A d \in Depth : d < MaxTimeouts => d + 1 \in Depth \ {0}
        BY MaxTimeoutsAssumption DEF Depth
      <3> QED BY <2>1, <2>4, <3>1 DEF Sent, Idle
    <2> QED BY <2>1, <2>5, <2>6, <2>7, <2>8 DEF Inv
  <1>3. CASE Reply \/ Crash
    <2> DEFINE s == IF pc[0].err = 0 THEN ctx[0] ELSE ErrorResponse(ctx[0], pc[0].err)
    <2>1. /\ phase = "run" /\ pc[0].mode \in {"up", "panic"}
          /\ phase' \in {"answered", "crashed"}
          /\ (answer' = Answer(SyncHeaders(s)) \/ answer' = answer)
          /\ Move(0, "done", 0, pc[0].err) \/ Move(0, "done", 0, 500)
          /\ pc[0].at = 0
          /\ UNCHANGED <<req, chain, ctx, result, flushed>>
      BY <1>3 DEF Reply, Crash, Finished, At
    <2>2. ctx[0] \in Context /\ pc[0] \in Place /\ pc \in [Depth -> Place]
      BY <1>0 DEF Inv, Typed
    <2>3. <<"error">> \in Seq(Content)
      BY ContentTyped DEF Content
    <2>4. s \in Context
      BY <2>2, <2>3, SendTyped DEF ErrorResponse, Place
    <2>5. answer' \in Response
      <3> HIDE DEF s
      <3> QED BY <2>1, <2>4, SyncTyped, AnswerTyped DEF Inv, Typed
    <2>6. /\ pc' \in [Depth -> Place] /\ pc'[0].mode = "done" /\ pc'[0].at = 0
          /\ pc'[0].base = pc[0].base /\ \A e \in Depth \ {0} : pc'[e] = pc[e]
      <3>1. \A n \in Nat : Move(0, "done", 0, n) =>
              /\ pc' \in [Depth -> Place] /\ pc'[0].mode = "done" /\ pc'[0].at = 0
              /\ pc'[0].base = pc[0].base /\ \A e \in Depth \ {0} : pc'[e] = pc[e]
        BY <1>0, <2>2, MoveTyped DEF Modes
      <3>2. pc[0].err \in Nat /\ 500 \in Nat
        BY <2>2 DEF Place
      <3> QED BY <2>1, <3>1, <3>2
    <2>7. Typed'
      BY <2>1, <2>5, <2>6 DEF Inv, Typed
    <2>8. phase # "read" /\ req.route # "slash"
      BY <1>0, <2>1, Begun
    <2>9. NotBegun'
      BY <2>1, <2>8 DEF NotBegun
    <2>10. InChain'
      <3>1. Last' = Last
        BY <2>1 DEF Last
      <3>2. \A d \in Depth : /\ pc'[d].at \in pc'[d].base .. Len(chain)
                             /\ pc'[d].mode \in {"down", "wait", "stream"} => pc'[d].at > pc'[d].base
        BY <1>0, <2>1, <2>6 DEF Inv, InChain
      <3> QED BY <2>1, <2>8, <3>1, <3>2 DEF Inv, InChain
    <2>11. Sent'
      <3>1. \A d \in Depth : d < MaxTimeouts => d + 1 \in Depth \ {0}
        BY MaxTimeoutsAssumption DEF Depth
      <3> QED BY <2>1, <2>6, <3>1 DEF Inv, Sent
    <2> QED BY <2>1, <2>7, <2>9, <2>10, <2>11 DEF Inv
  <1> QED BY <1>1, <1>2, <1>3 DEF Serve

LEMMA InvInit == Init => Inv
  <1> SUFFICES ASSUME Init PROVE Inv
    OBVIOUS
  <1>1. req.path \in Path /\ Fresh(req.path) \in Context
    BY RequestAssumption, FreshTyped DEF Init
  <1>2. chain \in Seq(Kind) /\ Len(chain) \in Nat
    <2>1. PICK c \in Chain : chain = IF req.route = "found" THEN c.global \o c.inline ELSE c.global
      BY DEF Init
    <2>2. c.global \in Seq(Kind) /\ c.inline \in Seq(Kind)
      BY ChainAssumption
    <2>3. c.global \o c.inline \in Seq(Kind)
      BY <2>2
    <2>4. chain \in Seq(Kind)
      BY <2>1, <2>2, <2>3
    <2> QED BY <2>4
  <1>3. answer \in Response
    BY <1>1, AnswerTyped DEF Init
  <1>4. Typed
    <2>1. Idle \in Place /\ NoResult \in Nat /\ 0 \in 0 .. Flushes
      BY FlushAssumption DEF Idle, Place, Modes, NoResult
    <2> QED BY <1>1, <1>2, <1>3, <2>1 DEF Init, Typed
  <1>5. NotBegun
    BY DEF Init, NotBegun, Fresh
  <1>6. InChain
    <2>1. phase = "read" /\ \A d \in Depth : pc[d] = Idle
      BY DEF Init
    <2>2. Idle.at = 0 /\ Idle.base = 0 /\ Idle.mode = "idle"
      BY DEF Idle
    <2> QED BY <1>2, <2>1, <2>2 DEF InChain
  <1>7. Sent
    BY MaxTimeoutsAssumption DEF Init, Sent, Idle, Depth
  <1> QED BY <1>4, <1>5, <1>6, <1>7 DEF Inv

LEMMA InvNext == Inv /\ [Next]_vars => Inv'
  <1> SUFFICES ASSUME Inv, [Next]_vars PROVE Inv'
    OBVIOUS
  <1>1. CASE Serve
    BY <1>1, ServeKeeps
  <1>2. ASSUME NEW d \in Depth, Step(d) \/ Timer(d) \/ Fault(d) PROVE Inv'
    BY <1>2, StartKeeps, FinishKeeps, StreamPanicKeeps, StepLocal, LocalKeeps
  <1>3. CASE UNCHANGED vars
    <2>1. Last' = Last
      BY <1>3 DEF Last, vars
    <2> QED BY <1>3, <2>1 DEF vars, Inv, Typed, NotBegun, InChain, Sent
  <1> QED BY <1>1, <1>2, <1>3 DEF Next

LEMMA Invariant == Spec => []Inv
  BY InvInit, InvNext, PTL DEF Spec

\* The contexts, the goroutines' places and the answer keep their types, for
\* any chain: no goroutine runs an element outside its part of the chain.
THEOREM TypeCorrect == Spec => []TypeOK
  <1>1. Inv => TypeOK
    <2> SUFFICES ASSUME Inv PROVE TypeOK
      OBVIOUS
    <2>1. \A d \in Depth : Answer(ctx[d]) \in Response
      BY AnswerTyped DEF Inv, Typed
    <2> QED BY <2>1 DEF Inv, Typed, InChain, TypeOK, Place, Context
  <1> QED BY <1>1, Invariant, PTL

\* From the moment a goroutine's result is on the channel of Timeout, neither
\* the result nor the response it stands for changes.
THEOREM ResultsStable == Spec => ResultStable
  <1> DEFINE Stable == \A d \in Depth : result[d] # NoResult =>
                         ctx'[d] = ctx[d] /\ result'[d] = result[d]
  <1>1. Inv /\ [Next]_vars => Stable
    <2> SUFFICES ASSUME Inv, [Next]_vars, NEW d \in Depth, result[d] # NoResult
                 PROVE  ctx'[d] = ctx[d] /\ result'[d] = result[d]
      OBVIOUS
    <2>1. pc[d].mode = "done"
      BY DEF Inv, Sent
    <2>2. CASE Serve
      BY <2>2, ServeKeeps
    <2>3. ASSUME NEW e \in Depth, StartTimeout(e)
          PROVE  ctx'[d] = ctx[d] /\ result'[d] = result[d]
      <3>1. d # e + 1
        BY <2>3, StartKeeps
      <3> QED BY <2>3, <3>1, StartKeeps DEF StartTimeout
    <2>4. ASSUME NEW e \in Depth, FinishLate(e)
          PROVE  ctx'[d] = ctx[d] /\ result'[d] = result[d]
      <3>1. d # e
        BY <2>4, FinishKeeps
      <3> QED BY <2>4, <3>1, FinishKeeps DEF FinishLate
    <2>5. ASSUME NEW e \in Depth, Step(e) \/ Timer(e) \/ Fault(e),
                 ~StartTimeout(e), ~FinishLate(e)
          PROVE  ctx'[d] = ctx[d] /\ result'[d] = result[d]
      BY <2>1, <2>5, StepLocal, StreamPanicKeeps DEF Local
    <2>6. CASE UNCHANGED vars
      BY <2>6 DEF vars
    <2> QED BY <2>2, <2>3, <2>4, <2>5, <2>6 DEF Next
  <1> QED BY <1>1, Invariant, PTL DEF Spec, ResultStable

-----------------------------------------------------------------------------
(* A failure stays one                                                     *)

Failing ==
  /\ req.route # "slash"
  /\ Last \in {"fail", "writefail", "panic", "notfound", "notallowed"}
  /\ \A i \in 1 .. Len(chain) - 1 : chain[i] = "timeout" \/ Passes(chain[i])
  /\ Last = "writefail" => req.match = <<>>

\* Nothing written below, so that ETag has nothing to compare.
Blank(s) == Last # "writefail" => s.body = <<>> /\ s.stream = <<>>

Failed ==
  phase # "read" /\ Failing =>
    /\ \A d \in Depth :
         /\ pc[d].mode \in {"up", "panic"} => pc[d].err >= 400
         /\ pc[d].mode # "stream"
         /\ result[d] # NoResult => result[d] >= 400
         /\ Blank(ctx[d])
    /\ phase = "answered" => answer.status >= 400

LEMMA DownPasses ==
  ASSUME NEW s \in Context, NEW k, Passes(k), NEW o \in Down(k, req, s)
  PROVE  o.go /\ o.s.body = s.body /\ o.s.stream = s.stream
  <1>1. /\ SetHeader(s, "rid").body = s.body /\ SetHeader(s, "rid").stream = s.stream
        /\ SetHeader(s, "security").body = s.body /\ SetHeader(s, "security").stream = s.stream
        /\ SetHeader(s, "cors").body = s.body /\ SetHeader(s, "cors").stream = s.stream
    BY DEF SetHeader, Context
  <1>2. CASE k = "requestid"
    BY <1>1, <1>2 DEF Down, RequestID, Go
  <1>3. CASE k = "helmet"
    BY <1>1, <1>3 DEF Down, Helmet, Go
  <1>4. CASE k = "cors"
    <2>1. req.method # "OPTIONS"
      BY <1>4 DEF Passes, Passing
    <2>2. o \in {Go(s), Go(SetHeader(s, "cors"))}
      BY <1>4, <2>1 DEF Down, CORS
    <2> QED BY <1>1, <2>2 DEF Go
  <1>5. CASE k \in {"recover", "etag", "responsetime", "compress", "skipped"}
    BY <1>5 DEF Down, Go
  <1> QED BY <1>2, <1>3, <1>4, <1>5 DEF Passes, Passing

LEMMA UpFails ==
  ASSUME NEW s \in Context, NEW k, NEW err \in Nat, err >= 400,
         Last = "writefail" => req.match = <<>>, Blank(s)
  PROVE  Up(k, req, s, err).err >= 400 /\ Blank(Up(k, req, s, err).s)
  <1>1. CASE k = "etag"
    <2> DEFINE b == Answer(s).body
    <2>1. [s EXCEPT !.body = b, !.stream = <<>>].body = b
      BY DEF Context
    <2>2. (s.stream = <<>> /\ s.body = <<>>) => b = <<>>
      BY DEF Answer
    <2>3. CASE Last = "writefail"
      <3>1. ASSUME b # <<>> PROVE req.match \notin {<<"*">>, b}
        BY <2>3, <3>1
      <3>2. \/ Up(k, req, s, err) = [s |-> s, err |-> err]
            \/ b # <<>> /\ req.match \in {<<"*">>, b}
            \/ Up(k, req, s, err).err = err
        BY <1>1, <2>1 DEF Up, ETag
      <3> QED BY <2>3, <3>1, <3>2 DEF Blank
    <2>4. CASE Last # "writefail"
      <3>1. Up(k, req, s, err) = [s |-> s, err |-> err]
        BY <1>1, <2>1, <2>2, <2>4 DEF Up, ETag, Blank
      <3> QED BY <3>1
    <2> QED BY <2>3, <2>4
  <1>2. CASE k = "responsetime"
    <2>1. SetHeader(s, "rtime").body = s.body /\ SetHeader(s, "rtime").stream = s.stream
      BY DEF SetHeader, Context
    <2> QED BY <1>2, <2>1 DEF Up, ResponseTime, Blank
  <1>3. CASE k = "compress"
    <2>1. s.stream = <<>> /\ s.body = <<>> => Compress(req, s, err).s = s
      BY DEF Compress, Answer
    <2> QED BY <1>3, <2>1 DEF Up, Compress, Blank
  <1>4. CASE k \notin {"etag", "responsetime", "compress"}
    BY <1>4 DEF Up
  <1> QED BY <1>1, <1>2, <1>3, <1>4

\* A failing handler, at the end of the chain, is the only one there is.
LEMMA FailingEnd ==
  ASSUME Inv, Failing, NEW d \in Depth, pc[d].mode = "down"
  PROVE  /\ Element(d) \in Terminal => Element(d) = Last
         /\ Element(d) \notin Terminal \cup {"timeout"} => Passes(Element(d))
  <1>1. /\ pc[d].at \in pc[d].base .. Len(chain) /\ pc[d].at > pc[d].base /\ pc[d].base \in Nat
        /\ Len(chain) \in Nat /\ chain[Len(chain)] = Last
    BY Begun DEF Inv, InChain, Place
  <1>2. CASE pc[d].at = Len(chain)
    BY <1>1, <1>2, Begun DEF Element
  <1>3. CASE pc[d].at # Len(chain)
    <2>1. pc[d].at \in 1 .. Len(chain) - 1
      BY <1>1, <1>3
    <2>2. Element(d) = "timeout" \/ Passes(Element(d))
      BY <2>1 DEF Failing, Element
    <2> QED BY <2>2 DEF Passes, Passing, Terminal, Handlers
  <1> QED BY <1>2, <1>3

LEMMA ReturnsFail ==
  ASSUME NEW s \in Context, Blank(s), Last \in {"fail", "writefail", "notfound", "notallowed"}
  PROVE  Returns(Last, s).err >= 400 /\ Blank(Returns(Last, s).s)
  <1>1. CASE Last = "fail"
    BY <1>1 DEF Returns, Stop
  <1>2. CASE Last = "writefail"
    BY <1>2 DEF Returns, Stop, Blank
  <1>3. CASE Last = "notfound"
    BY <1>3 DEF Returns, NotFound, Stop
  <1>4. CASE Last = "notallowed"
    <2>1. SetHeader(s, "allow").body = s.body /\ SetHeader(s, "allow").stream = s.stream
      BY DEF SetHeader, Context
    <2> QED BY <1>4, <2>1 DEF Returns, NotAllowed, Stop, Blank
  <1> QED BY <1>1, <1>2, <1>3, <1>4

\* What a step of goroutine d does keeps the failure.
FailsOn(d) ==
  /\ pc'[d].mode \in {"up", "panic"} => pc'[d].err >= 400
  /\ pc'[d].mode # "stream"
  /\ Blank(ctx'[d])

LEMMA StepFails ==
  ASSUME Inv, Failed, Failing, NEW d \in Depth, Step(d) \/ Timer(d) \/ Fault(d),
         ~StartTimeout(d), ~FinishLate(d), ~StreamPanic(d)
  PROVE  FailsOn(d)
  <1>0. /\ phase # "read" /\ pc[d].mode # "stream" /\ Blank(ctx[d]) /\ ctx[d] \in Context
        /\ pc[d].mode \in {"up", "panic"} => pc[d].err >= 400
        /\ Last \in {"fail", "writefail", "panic", "notfound", "notallowed"}
        /\ ctx \in [Depth -> Context] /\ pc[d].err \in Nat
    <2>1. pc[d].mode # "idle"
      BY StepLocal DEF Local
    <2> QED BY <2>1, Begun DEF Failed, Failing, Inv, Typed, Place
  <1>1. CASE Descend(d)
    <2>1. Passes(Element(d))
      BY <1>1, FailingEnd DEF Descend, At
    <2>2. PICK o \in Down(Element(d), req, ctx[d]) :
            /\ ctx' = [ctx EXCEPT ![d] = o.s]
            /\ o.go => Move(d, "down", pc[d].at + 1, 0)
      BY <1>1 DEF Descend
    <2>3. o.go /\ o.s.body = ctx[d].body /\ o.s.stream = ctx[d].stream
      BY <1>0, <2>1, DownPasses
    <2>4. pc'[d].mode = "down"
      <3>1. pc \in [Depth -> Place] /\ Move(d, "down", pc[d].at + 1, 0)
        BY <2>2, <2>3 DEF Inv, Typed
      <3> QED BY <3>1 DEF Move, Place
    <2>5. ctx'[d] = o.s
      BY <1>0, <2>2
    <2> QED BY <1>0, <2>3, <2>4, <2>5 DEF FailsOn, Blank
  <1>2. CASE Handle(d)
    <2>1. Element(d) = Last /\ Last # "panic"
      BY <1>2, FailingEnd DEF Handle, At, Returning, Panicking
    <2> QED BY <1>0, <1>2, <2>1, HandleLocal, ReturnsFail DEF FailsOn
  <1>3. CASE HandlePanic(d) \/ Unwind(d)
    BY <1>0, <1>3, PanicLocal DEF FailsOn
  <1>4. CASE Hang(d) \/ StreamStart(d)
    BY <1>0, <1>4, FailingEnd DEF Hang, StreamStart, At, Terminal, Handlers
  <1>5. CASE Ascend(d)
    <2>1. pc[d].err >= 400 /\ (Last = "writefail" => req.match = <<>>)
      BY <1>0, <1>5 DEF Ascend, At, Failing
    <2> QED BY <1>0, <1>5, <2>1, AscendLocal, UpFails DEF FailsOn
  <1>6. CASE StreamEnd(d) \/ StreamFail(d) \/ Flush(d)
    BY <1>0, <1>6 DEF StreamEnd, StreamFail, Flush, At
  <1>7. CASE Receive(d)
    <2>1. d + 1 \in Depth
      BY <1>7, MaxTimeoutsAssumption DEF Receive, At, Inv, Sent, Depth
    <2>2. result[d + 1] >= 400 /\ Blank(ctx[d + 1]) /\ ctx[d + 1] \in Context
      BY <1>0, <1>7, <2>1 DEF Failed, Receive
    <2>3. CopyBack(ctx[d], ctx[d + 1]).body = ctx[d + 1].body
          /\ CopyBack(ctx[d], ctx[d + 1]).stream = <<>>
      BY <1>0, <2>2 DEF CopyBack, Context
    <2> QED BY <1>7, <2>1, <2>2, <2>3, ReceiveLocal DEF FailsOn, Blank
  <1>8. CASE Expire(d)
    BY <1>0, <1>8, ExpireLocal DEF FailsOn
  <1> QED BY <1>1, <1>2, <1>3, <1>4, <1>5, <1>6, <1>7, <1>8 DEF Step, Timer, Fault

LEMMA FailedNext == Inv /\ Failed /\ [Next]_vars => Failed'
  <1> SUFFICES ASSUME Inv, Failed, [Next]_vars, phase' # "read", Failing' PROVE Failed'
    BY DEF Failed
  <1>0. 0 \in Depth
    BY MaxTimeoutsAssumption DEF Depth
  <1>1. ASSUME NEW d \in Depth, Step(d) \/ Timer(d) \/ Fault(d),
               ~StartTimeout(d), ~FinishLate(d), ~StreamPanic(d)
        PROVE  Failed'
    <2>1. Local(d)
      BY <1>1, StepLocal
    <2>2. Failing /\ Last' = Last /\ phase # "read"
      BY <2>1 DEF Local, Failing, Last, Passes
    <2>3. FailsOn(d)
      BY <1>1, <2>2, StepFails
    <2> QED BY <2>1, <2>2, <2>3 DEF Failed, FailsOn, Local, Blank
  <1>2. ASSUME NEW d \in Depth, StartTimeout(d) PROVE Failed'
    <2>1. /\ UNCHANGED <<req, chain, phase, result, answer>>
          /\ pc[d].mode # "idle" /\ ctx[d] \in Context
      BY <1>2 DEF StartTimeout, At, Inv, Typed
    <2>2. Failing /\ Last' = Last /\ phase # "read"
      BY <2>1 DEF Failing, Last, Passes
    <2>3. Copied(ctx[d]).body = <<>> /\ Copied(ctx[d]).stream = <<>>
      BY DEF Copied, Fresh
    <2>4. /\ d + 1 \in Depth /\ pc'[d].mode = "wait" /\ pc'[d + 1].mode = "down"
          /\ ctx'[d + 1] = Copied(ctx[d])
          /\ \A e \in Depth \ {d, d + 1} : pc'[e] = pc[e]
          /\ \A e \in Depth \ {d + 1} : ctx'[e] = ctx[e]
      BY <1>2, StartKeeps
    <2>5. \A e \in Depth : /\ pc'[e].mode \in {"up", "panic"} => pc'[e].err >= 400
                           /\ pc'[e].mode # "stream" /\ Blank(ctx'[e])
      BY <2>2, <2>3, <2>4 DEF Failed, Blank
    <2> QED BY <2>1, <2>2, <2>5 DEF Failed, Blank
  <1>3. ASSUME NEW d \in Depth, FinishLate(d) PROVE Failed'
    <2>1. UNCHANGED <<req, chain, phase, ctx, answer>>
      BY <1>3 DEF FinishLate
    <2>2. Failing /\ Last' = Last /\ phase # "read"
      BY <2>1 DEF Failing, Last, Passes
    <2> QED BY <1>3, <2>1, <2>2, FinishKeeps DEF Failed, Blank
  <1>4. CASE RedirectSlash
    BY <1>4 DEF RedirectSlash, Failing
  <1>5. CASE Begin
    <2>1. /\ phase = "read" /\ req.route # "slash" /\ phase' = "run"
          /\ pc' = [pc EXCEPT ![0] = [@ EXCEPT !.mode = "down", !.at = 1]]
          /\ UNCHANGED <<req, ctx, result>> /\ pc \in [Depth -> Place]
      BY <1>5 DEF Begin, Inv, Typed
    <2>2. pc'[0].mode = "down" /\ \A d \in Depth \ {0} : pc'[d] = pc[d]
      BY <1>0, <2>1 DEF Place
    <2>3. \A d \in Depth : /\ pc[d].mode = "idle" /\ result[d] = NoResult
                           /\ ctx[d].body = <<>> /\ ctx[d].stream = <<>>
      BY <2>1 DEF Inv, NotBegun, Idle
    <2> QED BY <2>1, <2>2, <2>3 DEF Failed, Blank
  <1>6. CASE Reply
    <2>1. /\ UNCHANGED <<req, chain, ctx, result>> /\ phase = "run" /\ pc[0].mode = "up"
          /\ Move(0, "done", 0, pc[0].err)
          /\ answer' = Answer(SyncHeaders(IF pc[0].err = 0 THEN ctx[0]
                                          ELSE ErrorResponse(ctx[0], pc[0].err)))
      BY <1>6 DEF Reply, Finished, At
    <2>2. Failing /\ Last' = Last
      BY <2>1 DEF Failing, Last, Passes
    <2>3. pc[0].err >= 400 /\ pc[0].err \in Nat /\ ctx[0] \in Context /\ pc \in [Depth -> Place]
      BY <1>0, <2>1, <2>2 DEF Failed, Inv, Typed, Place
    <2> DEFINE e == ErrorResponse(ctx[0], pc[0].err)
    <2>4. e \in Context /\ e.status = pc[0].err
      <3>1. <<"error">> \in Seq(Content)
        BY ContentTyped DEF Content
      <3>2. e \in Context
        BY <2>3, <3>1, SendTyped DEF ErrorResponse
      <3> QED BY <2>3, <3>2 DEF ErrorResponse, SendString, Context
    <2>5. answer' = Answer(SyncHeaders(e))
      BY <2>1, <2>3
    <2> HIDE DEF e
    <2>6. answer'.status >= 400
      BY <2>3, <2>4, <2>5, SyncKeeps DEF Answer
    <2>7. pc'[0].mode = "done" /\ \A d \in Depth \ {0} : pc'[d] = pc[d]
      BY <1>0, <2>1, <2>3 DEF Move, Place
    <2> QED BY <2>1, <2>2, <2>6, <2>7 DEF Failed, Blank
  <1>7. CASE Crash
    <2>1. /\ UNCHANGED <<req, chain, ctx, result, answer>> /\ phase = "run" /\ phase' = "crashed"
          /\ Move(0, "done", 0, 500) /\ pc \in [Depth -> Place]
      BY <1>7 DEF Crash, Finished, Inv, Typed
    <2>2. Failing /\ Last' = Last
      BY <2>1 DEF Failing, Last, Passes
    <2>3. pc'[0].mode = "done" /\ \A d \in Depth \ {0} : pc'[d] = pc[d]
      BY <1>0, <2>1 DEF Move, Place
    <2> QED BY <2>1, <2>2, <2>3 DEF Failed, Blank
  <1>8. CASE UNCHANGED vars
    <2>1. Failing /\ Last' = Last
      BY <1>8 DEF Failing, Last, Passes, vars
    <2> QED BY <1>8, <2>1 DEF Failed, Blank, vars
  <1>9. ASSUME NEW d \in Depth, StreamPanic(d) PROVE Failed'
    <2>1. phase' = "crashed" /\ UNCHANGED <<req, chain, ctx, pc, result, answer>>
      BY <1>9, StreamPanicKeeps
    <2>2. pc[d].mode = "stream"
      BY <1>9 DEF StreamPanic, At
    <2>3. Failing /\ Last' = Last /\ phase # "read"
      BY <2>1, <2>2, Begun DEF Failing, Last, Passes
    <2> QED BY <2>1, <2>3 DEF Failed, Blank
  <1> QED BY <1>1, <1>2, <1>3, <1>4, <1>5, <1>6, <1>7, <1>8, <1>9 DEF Next, Serve

\* A handler's error, a panic, an unknown path or a wrong method below any
\* number of Timeouts and of the middlewares that go on is answered by a status
\* of at least 400, whichever of the timers wins.
THEOREM FailuresShown == Spec => []FailureShown
  <1>1. Init => Failed
    BY DEF Init, Failed
  <1>2. Inv /\ Failed => FailureShown
    <2> SUFFICES ASSUME Failed, phase = "answered", Failing PROVE answer.status >= 400
      BY DEF FailureShown, Failing
    <2> QED BY DEF Failed
  <1> QED BY <1>1, <1>2, FailedNext, Invariant, PTL DEF Spec
=============================================================================
