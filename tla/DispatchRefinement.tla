-------------------------- MODULE DispatchRefinement --------------------------
(***************************************************************************)
(* Dispatch implements Exchange, for any chain and any number of Timeouts: *)
(* however the goroutines and the timers interleave, the answer is one the *)
(* chain comes to when it is run by itself.  The invariant says of each    *)
(* goroutine somebody waits for that whatever it may still come to leads   *)
(* to a result of the elements it was started for.                         *)
(*                                                                         *)
(* What holds of the results of a chain run by itself then holds of the    *)
(* answers: the second half follows the headers through a chain, from its  *)
(* last element to its first, and proves HeaderOnce and                    *)
(* EarlyHeadersDelivered without looking at a goroutine again.             *)
(***************************************************************************)
EXTENDS DispatchProofs

\* A goroutine at place p, with context s and what it has sent, is on its way
\* to a result in goal.
OnTheWay(p, s, sent, goal) ==
  /\ p.mode # "idle"
  /\ p.mode \in {"down", "wait", "stream"} =>
       Leads(chain, req, p.base, p.at, From(chain, req, p.at)[s], goal)
  /\ p.mode = "up" => Leads(chain, req, p.base, p.at + 1, {Result(s, p.err)}, goal)
  /\ p.mode = "panic" => Leads(chain, req, p.base, p.at + 1, {Panics(s)}, goal)
  /\ p.mode = "done" => \E r \in goal : r.s = s /\ r.err = sent

\* Somebody needs what goroutine d comes to: the server, or a Timeout that has
\* not given up.
Awaited(d) == IF d = 0 THEN phase = "run" ELSE pc[d - 1].mode = "wait"

\* The last element that is not its own, and what its own can come to.
Start(d) == IF d = 0 THEN 0 ELSE pc[d - 1].at
Goal(d) ==
  From(chain, req, Start(d) + 1)[IF d = 0 THEN Fresh(req.path) ELSE Copied(ctx[d - 1])]

OnCourse ==
  \A d \in Depth : Awaited(d) => /\ pc[d].base = Start(d)
                                 /\ OnTheWay(pc[d], ctx[d], result[d], Goal(d))

\* What the modes stand for.
Placed ==
  /\ flushed <= PipeCap
  /\ \A d \in Depth : /\ pc[d].mode = "wait" => Element(d) = "timeout"
                      /\ pc[d].mode = "stream" => Element(d) = "stream"
                      /\ pc[d].mode = "panic" => pc[d].err = 500

Answers == {Respond(r) : r \in {r \in Results : ~r.panic}}

\* The chain has a streaming handler, whose function may end the process.
Streams == \E i \in 1 .. Len(Whole) : Whole[i] = "stream"

\* The answer is one of them, and before there is one the context is new.
Whence ==
  /\ phase = "read" => ctx[0] = Fresh(req.path)
  /\ phase = "answered" => answer \in Answers

Course == OnCourse /\ Placed /\ Whence

-----------------------------------------------------------------------------
(* The steps of a goroutine                                                *)

\* What goroutine d, still in the chain, stands for.
LEMMA There ==
  ASSUME Inv, NEW d \in Depth, pc[d].mode \notin {"idle", "done"}
  PROVE  /\ Len(chain) \in Nat /\ pc \in [Depth -> Place] /\ ctx \in [Depth -> Context]
         /\ ctx[d] \in Context /\ pc[d].err \in Nat
         /\ pc[d].base \in Nat /\ pc[d].at \in Nat /\ pc[d].at \in pc[d].base .. Len(chain)
         /\ pc[d].at > pc[d].base => /\ pc[d].at \in 1 .. Len(chain) /\ pc[d].at - 1 \in Nat
                                     /\ pc[d].base < pc[d].at /\ (pc[d].at - 1) + 1 = pc[d].at
         /\ pc[d].mode \in {"down", "wait", "stream"} => pc[d].at > pc[d].base
  <1>1. /\ Len(chain) \in Nat /\ pc \in [Depth -> Place] /\ ctx \in [Depth -> Context]
        /\ pc[d] \in Place /\ ctx[d] \in Context /\ pc[d].at \in pc[d].base .. Len(chain)
    BY Begun DEF Inv, Typed
  <1>2. pc[d].base \in Nat /\ pc[d].at \in Nat /\ pc[d].err \in Nat
    BY <1>1 DEF Place
  <1>3. pc[d].mode \in {"down", "wait", "stream"} => pc[d].at > pc[d].base
    BY DEF Inv, InChain
  <1> QED BY <1>1, <1>2, <1>3

\* Going up by one element with a result of that element.
LEMMA UpOn ==
  ASSUME Inv, NEW d \in Depth, NEW goal, pc[d].mode \notin {"idle", "done"},
         pc[d].at > pc[d].base, NEW s \in Context, ctx' = [ctx EXCEPT ![d] = s],
         UNCHANGED <<req, chain>>, NEW err \in Nat,
         \/ /\ Move(d, "up", pc[d].at - 1, err)
            /\ Leads(chain, req, pc[d].base, pc[d].at, {Result(s, err)}, goal)
         \/ /\ Move(d, "panic", pc[d].at - 1, err)
            /\ Leads(chain, req, pc[d].base, pc[d].at, {Panics(s)}, goal)
  PROVE  OnTheWay(pc[d], ctx[d], result[d], goal)'
  <1>1. /\ pc \in [Depth -> Place] /\ ctx \in [Depth -> Context]
        /\ pc[d].at - 1 \in Nat /\ (pc[d].at - 1) + 1 = pc[d].at
    BY There
  <1>2. ctx'[d] = s
    BY <1>1, ContextTyped
  <1>3. CASE /\ Move(d, "up", pc[d].at - 1, err)
             /\ Leads(chain, req, pc[d].base, pc[d].at, {Result(s, err)}, goal)
    <2>1. /\ pc'[d].mode = "up" /\ pc'[d].at = pc[d].at - 1 /\ pc'[d].err = err
          /\ pc'[d].base = pc[d].base
      BY <1>1, <1>3, MoveTyped DEF Modes
    <2> QED BY <1>1, <1>2, <1>3, <2>1 DEF OnTheWay
  <1>4. CASE /\ Move(d, "panic", pc[d].at - 1, err)
             /\ Leads(chain, req, pc[d].base, pc[d].at, {Panics(s)}, goal)
    <2>1. /\ pc'[d].mode = "panic" /\ pc'[d].at = pc[d].at - 1
          /\ pc'[d].base = pc[d].base
      BY <1>1, <1>4, MoveTyped DEF Modes
    <2> QED BY <1>1, <1>2, <1>4, <2>1 DEF OnTheWay
  <1> QED BY <1>3, <1>4

\* The element at which goroutine d stands, and its results.
LEMMA Standing ==
  ASSUME Inv, NEW d \in Depth, NEW goal, OnTheWay(pc[d], ctx[d], result[d], goal),
         pc[d].mode \in {"down", "wait", "stream"}
  PROVE  /\ Leads(chain, req, pc[d].base, pc[d].at, From(chain, req, pc[d].at)[ctx[d]], goal)
         /\ \A r \in From(chain, req, pc[d].at)[ctx[d]] :
              Leads(chain, req, pc[d].base, pc[d].at, {r}, goal)
  <1>1. Leads(chain, req, pc[d].base, pc[d].at, From(chain, req, pc[d].at)[ctx[d]], goal)
    BY DEF OnTheWay
  <1>2. ASSUME NEW r \in From(chain, req, pc[d].at)[ctx[d]]
        PROVE  Leads(chain, req, pc[d].base, pc[d].at, {r}, goal)
    BY <1>1, LeadsLess
  <1> QED BY <1>1, <1>2

LEMMA DescendOn ==
  ASSUME Inv, NEW d \in Depth, NEW goal, OnTheWay(pc[d], ctx[d], result[d], goal), Descend(d)
  PROVE  OnTheWay(pc[d], ctx[d], result[d], goal)'
  <1>1. /\ pc[d].mode = "down" /\ Element(d) \notin Terminal \cup {"timeout"}
        /\ UNCHANGED <<req, chain, result>>
    BY DEF Descend, At
  <1>2. PICK o \in Down(Element(d), req, ctx[d]) :
          /\ ctx' = [ctx EXCEPT ![d] = o.s]
          /\ IF o.go THEN Move(d, "down", pc[d].at + 1, 0)
                     ELSE Move(d, "up", pc[d].at - 1, o.err)
    BY DEF Descend
  <1>3. /\ Len(chain) \in Nat /\ pc \in [Depth -> Place] /\ ctx \in [Depth -> Context]
        /\ ctx[d] \in Context /\ pc[d].base \in Nat /\ pc[d].at \in Nat
        /\ pc[d].at > pc[d].base /\ pc[d].base < pc[d].at /\ pc[d].at \in 1 .. Len(chain)
    BY <1>1, There
  <1>4. o.s \in Context /\ o.err \in Nat
    BY <1>3, DownTyped DEF Outcome
  <1> DEFINE here == From(chain, req, pc[d].at)[ctx[d]]
             below == From(chain, req, pc[d].at + 1)[o.s]
  <1>5. /\ o.go => {Around(chain[pc[d].at], req, r) : r \in below} \subseteq here
        /\ ~o.go => Result(o.s, o.err) \in here
    BY <1>1, <1>2, <1>3, FromMiddleware DEF Element
  <1>6. /\ Leads(chain, req, pc[d].base, pc[d].at, here, goal)
        /\ \A r \in here : Leads(chain, req, pc[d].base, pc[d].at, {r}, goal)
    BY <1>1, Standing
  <1> HIDE DEF here, below
  <1>7. CASE o.go
    <2>1. Leads(chain, req, pc[d].base, pc[d].at,
                {Around(chain[pc[d].at], req, r) : r \in below}, goal)
      BY <1>5, <1>6, <1>7, LeadsLess
    <2>2. Leads(chain, req, pc[d].base, pc[d].at + 1, below, goal)
      BY <1>3, <2>1, LeadsDown
    <2>3. /\ pc'[d].mode = "down" /\ pc'[d].at = pc[d].at + 1 /\ pc'[d].base = pc[d].base
      BY <1>2, <1>3, <1>7, MoveTyped DEF Modes
    <2>4. ctx'[d] = o.s
      BY <1>2, <1>3, <1>4, ContextTyped
    <2> QED BY <1>1, <2>2, <2>3, <2>4 DEF OnTheWay, below
  <1>8. CASE ~o.go
    <2>1. Leads(chain, req, pc[d].base, pc[d].at, {Result(o.s, o.err)}, goal)
      BY <1>5, <1>6, <1>8
    <2>2. Move(d, "up", pc[d].at - 1, o.err) /\ ctx' = [ctx EXCEPT ![d] = o.s]
      BY <1>2, <1>8
    <2> QED BY <1>1, <1>3, <1>4, <2>1, <2>2, UpOn
  <1> QED BY <1>7, <1>8

LEMMA HandleOn ==
  ASSUME Inv, NEW d \in Depth, NEW goal, OnTheWay(pc[d], ctx[d], result[d], goal), Handle(d)
  PROVE  OnTheWay(pc[d], ctx[d], result[d], goal)'
  <1> DEFINE o == Returns(Element(d), ctx[d])
  <1>1. /\ pc[d].mode = "down" /\ Element(d) \in Returning
        /\ ctx' = [ctx EXCEPT ![d] = o.s] /\ Move(d, "up", pc[d].at - 1, o.err)
        /\ UNCHANGED <<req, chain>>
    BY DEF Handle, At
  <1>2. /\ Len(chain) \in Nat /\ ctx[d] \in Context
        /\ pc[d].at > pc[d].base /\ pc[d].at \in 1 .. Len(chain)
    BY <1>1, There
  <1>3. o.s \in Context /\ o.err \in Nat
    BY <1>1, <1>2, ReturnsTyped DEF Outcome
  <1>4. From(chain, req, pc[d].at)[ctx[d]] = RunHandler(Element(d), ctx[d])
    BY <1>1, <1>2, FromHandler DEF Element, Returning
  <1>5. RunHandler(Element(d), ctx[d]) = {Result(o.s, o.err)}
    BY <1>1, HandlerResults
  <1> HIDE DEF o
  <1>6. Leads(chain, req, pc[d].base, pc[d].at, {Result(o.s, o.err)}, goal)
    BY <1>1, <1>4, <1>5, Standing
  <1> QED BY <1>1, <1>2, <1>3, <1>6, UpOn

LEMMA HandlePanicOn ==
  ASSUME Inv, NEW d \in Depth, NEW goal, OnTheWay(pc[d], ctx[d], result[d], goal), HandlePanic(d)
  PROVE  OnTheWay(pc[d], ctx[d], result[d], goal)'
  <1> DEFINE code == 500
  <1>1. /\ pc[d].mode = "down" /\ Element(d) \in Panicking
        /\ Move(d, "panic", pc[d].at - 1, code) /\ UNCHANGED <<req, chain, ctx>>
    BY DEF HandlePanic, At
  <1>2. /\ Len(chain) \in Nat /\ ctx[d] \in Context /\ ctx \in [Depth -> Context]
        /\ pc[d].at > pc[d].base /\ pc[d].at \in 1 .. Len(chain)
    BY <1>1, There
  <1>3. From(chain, req, pc[d].at)[ctx[d]] = {Panics(ctx[d])}
    <2>1. Element(d) \in Terminal
      BY <1>1 DEF Panicking, Terminal, Handlers
    <2> QED BY <1>1, <1>2, <2>1, FromHandler, HandlerResults DEF Element
  <1>4. Leads(chain, req, pc[d].base, pc[d].at, {Panics(ctx[d])}, goal)
    BY <1>1, <1>3, Standing
  <1>5. ctx' = [ctx EXCEPT ![d] = ctx[d]] /\ code \in Nat
    BY <1>1, <1>2, Same
  <1> HIDE DEF code
  <1> QED BY <1>1, <1>2, <1>4, <1>5, UpOn

LEMMA StayOn ==
  ASSUME Inv, NEW d \in Depth, NEW goal, OnTheWay(pc[d], ctx[d], result[d], goal),
         Hang(d) \/ StreamStart(d) \/ Flush(d)
  PROVE  OnTheWay(pc[d], ctx[d], result[d], goal)'
  <1>1. pc[d].mode \in {"down", "stream"} /\ UNCHANGED <<req, chain, ctx, result>>
    BY DEF Hang, StreamStart, Flush, At
  <1>2. pc \in [Depth -> Place] /\ pc[d].at \in Nat
    BY <1>1, There
  <1>3. Leads(chain, req, pc[d].base, pc[d].at, From(chain, req, pc[d].at)[ctx[d]], goal)
    BY <1>1, Standing
  <1>4. CASE Hang(d)
    <2>1. pc'[d].mode = "stuck"
      BY <1>2, <1>4, MoveTyped DEF Hang, Modes
    <2> QED BY <2>1 DEF OnTheWay
  <1>5. CASE StreamStart(d)
    <2>1. pc'[d].mode = "stream" /\ pc'[d].at = pc[d].at /\ pc'[d].base = pc[d].base
      BY <1>2, <1>5, MoveTyped DEF StreamStart, Modes
    <2> QED BY <1>1, <1>3, <2>1 DEF OnTheWay
  <1>6. CASE Flush(d)
    BY <1>1, <1>6 DEF Flush, OnTheWay
  <1> QED BY <1>4, <1>5, <1>6

\* The writer function has returned, after all its flushes or with an error.
LEMMA StreamEndOn ==
  ASSUME Inv, Placed, NEW d \in Depth, NEW goal,
         OnTheWay(pc[d], ctx[d], result[d], goal), StreamEnd(d) \/ StreamFail(d)
  PROVE  OnTheWay(pc[d], ctx[d], result[d], goal)'
  <1> DEFINE s == Streamed(ctx[d])
  <1>1. PICK err \in Nat :
          Move(d, "up", pc[d].at - 1, err) /\ Result(s, err) \in RunHandler("stream", ctx[d])
    <2>1. CASE StreamEnd(d)
      BY <2>1, HandlerResults DEF StreamEnd, Placed
    <2>2. CASE StreamFail(d)
      BY <2>2, HandlerResults DEF StreamFail
    <2> QED BY <2>1, <2>2
  <1>2. /\ pc[d].mode = "stream" /\ Element(d) = "stream"
        /\ ctx' = [ctx EXCEPT ![d] = s] /\ UNCHANGED <<req, chain>>
    BY DEF StreamEnd, StreamFail, At, Placed
  <1>3. /\ Len(chain) \in Nat /\ ctx[d] \in Context
        /\ pc[d].at > pc[d].base /\ pc[d].at \in 1 .. Len(chain)
    BY <1>2, There
  <1>4. s \in Context
    BY <1>3, CopiesTyped
  <1>5. From(chain, req, pc[d].at)[ctx[d]] = RunHandler("stream", ctx[d])
    BY <1>2, <1>3, FromHandler DEF Element, Terminal, Handlers
  <1> HIDE DEF s
  <1>6. Leads(chain, req, pc[d].base, pc[d].at, {Result(s, err)}, goal)
    BY <1>1, <1>2, <1>5, Standing
  <1> QED BY <1>1, <1>2, <1>3, <1>4, <1>6, UpOn

LEMMA AscendOn ==
  ASSUME Inv, NEW d \in Depth, NEW goal, OnTheWay(pc[d], ctx[d], result[d], goal), Ascend(d)
  PROVE  OnTheWay(pc[d], ctx[d], result[d], goal)'
  <1> DEFINE o == Up(Element(d), req, ctx[d], pc[d].err)
  <1>1. /\ pc[d].mode = "up" /\ pc[d].at > pc[d].base
        /\ ctx' = [ctx EXCEPT ![d] = o.s] /\ Move(d, "up", pc[d].at - 1, o.err)
        /\ UNCHANGED <<req, chain>>
    BY DEF Ascend, At
  <1>2. /\ ctx[d] \in Context /\ pc[d].err \in Nat /\ pc[d].at \in Nat /\ pc[d].base \in Nat
        /\ pc[d].base < pc[d].at
    BY <1>1, There
  <1>3. o.s \in Context /\ o.err \in Nat
    BY <1>2, UpTyped
  <1> DEFINE r == Result(ctx[d], pc[d].err)
  <1>4. Leads(chain, req, pc[d].base, pc[d].at + 1, {r}, goal)
    BY <1>1 DEF OnTheWay
  <1>5. Around(Element(d), req, r) = Result(o.s, o.err)
    BY DEF Around, Result
  <1> HIDE DEF o, r
  <1>6. Leads(chain, req, pc[d].base, pc[d].at, {Around(chain[pc[d].at], req, r)}, goal)
    BY <1>2, <1>4, LeadsUp
  <1>7. Leads(chain, req, pc[d].base, pc[d].at, {Result(o.s, o.err)}, goal)
    BY <1>5, <1>6 DEF Element
  <1> QED BY <1>1, <1>3, <1>7, UpOn

LEMMA UnwindOn ==
  ASSUME Inv, Placed, NEW d \in Depth, NEW goal,
         OnTheWay(pc[d], ctx[d], result[d], goal), Unwind(d)
  PROVE  OnTheWay(pc[d], ctx[d], result[d], goal)'
  <1> DEFINE code == 500
             r == Panics(ctx[d])
  <1>1. /\ pc[d].mode = "panic" /\ pc[d].at > pc[d].base
        /\ Move(d, IF Element(d) = "recover" THEN "up" ELSE "panic", pc[d].at - 1, code)
        /\ UNCHANGED <<req, chain, ctx>>
    BY DEF Unwind, At
  <1>2. /\ ctx[d] \in Context /\ ctx \in [Depth -> Context]
        /\ pc[d].at \in Nat /\ pc[d].base \in Nat /\ pc[d].base < pc[d].at
    BY <1>1, There
  <1>3. ctx' = [ctx EXCEPT ![d] = ctx[d]] /\ code \in Nat
    BY <1>1, <1>2, Same
  <1>4. Leads(chain, req, pc[d].base, pc[d].at + 1, {r}, goal)
    BY <1>1 DEF OnTheWay
  <1>5. Around(Element(d), req, r) = IF Element(d) = "recover" THEN Result(ctx[d], code) ELSE r
    BY DEF Around, Panics
  <1> HIDE DEF code, r
  <1>6. Leads(chain, req, pc[d].base, pc[d].at, {Around(Element(d), req, r)}, goal)
    BY <1>2, <1>4, LeadsUp DEF Element
  <1>7. CASE Element(d) = "recover"
    <2>1. Move(d, "up", pc[d].at - 1, code)
      BY <1>1, <1>7
    <2>2. Leads(chain, req, pc[d].base, pc[d].at, {Result(ctx[d], code)}, goal)
      BY <1>5, <1>6, <1>7
    <2> QED BY <1>1, <1>2, <1>3, <2>1, <2>2, UpOn
  <1>8. CASE Element(d) # "recover"
    <2>1. Move(d, "panic", pc[d].at - 1, code)
      BY <1>1, <1>8
    <2>2. Leads(chain, req, pc[d].base, pc[d].at, {Panics(ctx[d])}, goal)
      BY <1>5, <1>6, <1>8 DEF r
    <2> QED BY <1>1, <1>2, <1>3, <2>1, <2>2, UpOn
  <1> QED BY <1>7, <1>8

LEMMA ExpireOn ==
  ASSUME Inv, Placed, NEW d \in Depth, NEW goal,
         OnTheWay(pc[d], ctx[d], result[d], goal), Expire(d)
  PROVE  OnTheWay(pc[d], ctx[d], result[d], goal)'
  <1> DEFINE code == 408
  <1>1. /\ pc[d].mode = "wait" /\ Element(d) = "timeout"
        /\ Move(d, "up", pc[d].at - 1, code) /\ UNCHANGED <<req, chain, ctx>>
    BY DEF Expire, At, Placed
  <1>2. /\ Len(chain) \in Nat /\ ctx[d] \in Context /\ ctx \in [Depth -> Context]
        /\ pc[d].at > pc[d].base /\ pc[d].at \in 1 .. Len(chain)
    BY <1>1, There
  <1>3. Result(ctx[d], code) \in From(chain, req, pc[d].at)[ctx[d]]
    <2> DEFINE i == pc[d].at
               s == ctx[d]
    <2>1. /\ Len(chain) \in Nat /\ i \in 1 .. Len(chain) /\ s \in Context
          /\ chain[i] = "timeout" /\ code = 408
      BY <1>1, <1>2 DEF Element
    <2> HIDE DEF i, s, code
    <2>2. Result(s, code) \in From(chain, req, i)[s]
      BY <2>1, FromTimeout, ZenonT(40)
    <2> QED BY <2>2 DEF i, s
  <1>4. Leads(chain, req, pc[d].base, pc[d].at, {Result(ctx[d], code)}, goal)
    BY <1>1, <1>3, Standing
  <1>5. ctx' = [ctx EXCEPT ![d] = ctx[d]] /\ code \in Nat
    BY <1>1, <1>2, Same
  <1> HIDE DEF code
  <1> QED BY <1>1, <1>2, <1>4, <1>5, UpOn

LEMMA ReceiveOn ==
  ASSUME Inv, Placed, OnCourse, NEW d \in Depth, NEW goal,
         OnTheWay(pc[d], ctx[d], result[d], goal), Receive(d)
  PROVE  OnTheWay(pc[d], ctx[d], result[d], goal)'
  <1> DEFINE s == CopyBack(ctx[d], ctx[d + 1])
             err == result[d + 1]
  <1>1. /\ pc[d].mode = "wait" /\ Element(d) = "timeout" /\ err # NoResult
        /\ ctx' = [ctx EXCEPT ![d] = s] /\ Move(d, "up", pc[d].at - 1, err)
        /\ UNCHANGED <<req, chain>>
    BY DEF Receive, At, Placed
  <1>2. d + 1 \in Depth /\ d + 1 # 0 /\ (d + 1) - 1 = d
    BY <1>1, MaxTimeoutsAssumption DEF Inv, Sent, Depth
  <1>3. /\ Len(chain) \in Nat /\ ctx[d] \in Context /\ ctx \in [Depth -> Context]
        /\ pc[d].at > pc[d].base /\ pc[d].at \in 1 .. Len(chain)
    BY <1>1, There
  <1>4. s \in Context /\ err \in Nat
    BY <1>2, <1>3, CopiesTyped DEF Inv, Typed
  <1>5. pc[d + 1].mode = "done"
    BY <1>1, <1>2 DEF Inv, Sent
  <1>6. /\ Awaited(d + 1) /\ Start(d + 1) = pc[d].at
        /\ Goal(d + 1) = From(chain, req, pc[d].at + 1)[Copied(ctx[d])]
    BY <1>1, <1>2 DEF Awaited, Goal, Start
  <1>7. PICK r \in From(chain, req, pc[d].at + 1)[Copied(ctx[d])] :
          r.s = ctx[d + 1] /\ r.err = err
    BY <1>2, <1>5, <1>6 DEF OnCourse, OnTheWay
  <1>8. Result(CopyBack(ctx[d], r.s), r.err) \in From(chain, req, pc[d].at)[ctx[d]]
    BY <1>1, <1>3, <1>7, FromCopy DEF Element
  <1>9. Leads(chain, req, pc[d].base, pc[d].at, {Result(s, err)}, goal)
    BY <1>1, <1>7, <1>8, Standing
  <1> HIDE DEF s, err
  <1> QED BY <1>1, <1>3, <1>4, <1>9, UpOn

LEMMA StepOn ==
  ASSUME Inv, Course, NEW d \in Depth, NEW goal, OnTheWay(pc[d], ctx[d], result[d], goal),
         Step(d) \/ Timer(d) \/ Fault(d),
         ~StartTimeout(d), ~FinishLate(d), ~StreamPanic(d)
  PROVE  OnTheWay(pc[d], ctx[d], result[d], goal)'
  <1>1. CASE Descend(d) \/ Handle(d) \/ HandlePanic(d)
    BY <1>1, DescendOn, HandleOn, HandlePanicOn
  <1>2. CASE Hang(d) \/ StreamStart(d) \/ Flush(d)
    BY <1>2, StayOn
  <1>3. CASE StreamEnd(d) \/ StreamFail(d) \/ Ascend(d) \/ Unwind(d)
    BY <1>3, StreamEndOn, AscendOn, UnwindOn DEF Course
  <1>4. CASE Receive(d) \/ Expire(d)
    BY <1>4, ReceiveOn, ExpireOn DEF Course
  <1> QED BY <1>1, <1>2, <1>3, <1>4 DEF Step, Timer, Fault

-----------------------------------------------------------------------------
(* Every step keeps the course                                             *)

\* The new mode of a goroutine that has made a step by itself.
LEMMA StepPlaced ==
  ASSUME Inv, Placed, NEW d \in Depth, Step(d) \/ Timer(d) \/ Fault(d),
         ~StartTimeout(d), ~FinishLate(d), ~StreamPanic(d)
  PROVE  /\ flushed' <= PipeCap
         /\ pc'[d].mode = "stream" => Element(d)' = "stream"
         /\ pc'[d].mode = "panic" => pc'[d].err = 500
  <1>1. Local(d)
    BY StepLocal
  <1>2. /\ pc \in [Depth -> Place] /\ pc[d].at \in Nat /\ pc[d].at - 1 \in Int
        /\ flushed \in Nat /\ flushed <= PipeCap /\ PipeCap \in Nat
        /\ pc[d].at > pc[d].base => pc[d].at - 1 \in Nat
        /\ pc[d].mode \in {"down", "stream"} => pc[d].at > pc[d].base
    BY <1>1, There, FlushAssumption DEF Local, Placed, Inv, Typed
  <1>3. CASE Descend(d)
    <2>1. pc'[d].mode \in {"down", "up"}
      <3>1. PICK o \in Down(Element(d), req, ctx[d]) :
              IF o.go THEN Move(d, "down", pc[d].at + 1, 0) ELSE Move(d, "up", pc[d].at - 1, o.err)
        BY <1>3 DEF Descend
      <3>2. \A mode, at, err : Move(d, mode, at, err) => pc'[d].mode = mode
        BY <1>2 DEF Move, Place
      <3> QED BY <3>1, <3>2
    <2> QED BY <1>2, <1>3, <2>1 DEF Descend
  <1>4. CASE Handle(d)
    BY <1>2, <1>4, HandleLocal DEF Handle
  <1>5. CASE HandlePanic(d) \/ Unwind(d)
    BY <1>2, <1>5, PanicLocal DEF HandlePanic, Unwind
  <1>6. CASE Hang(d)
    BY <1>2, <1>6, StayLocal DEF Hang, At
  <1>7. CASE StreamStart(d)
    <2>1. pc'[d].mode = "stream" /\ pc'[d].at = pc[d].at
      BY <1>2, <1>7, MoveTyped DEF StreamStart, Modes
    <2> QED BY <1>2, <1>7, <2>1 DEF StreamStart, Element
  <1>8. CASE Flush(d)
    BY <1>2, <1>8 DEF Flush, Placed, Element
  <1>9. CASE StreamEnd(d) \/ StreamFail(d)
    <2>1. pc'[d].mode = "up"
      BY <1>2, <1>9, MoveTyped DEF StreamEnd, StreamFail, At, Modes
    <2> QED BY <1>2, <1>9, <2>1 DEF StreamEnd, StreamFail
  <1>10. CASE Ascend(d)
    BY <1>2, <1>10, AscendLocal DEF Ascend
  <1>11. CASE Receive(d)
    <2>1. d + 1 \in Depth
      BY <1>11, MaxTimeoutsAssumption DEF Receive, At, Inv, Sent, Depth
    <2> QED BY <1>2, <1>11, <2>1, ReceiveLocal DEF Receive
  <1>12. CASE Expire(d)
    BY <1>2, <1>12, ExpireLocal DEF Expire
  <1> QED BY <1>3, <1>4, <1>5, <1>6, <1>7, <1>8, <1>9, <1>10, <1>11, <1>12
         DEF Step, Timer, Fault

\* What the chain comes to is fixed once it is known.
LEMMA ResultsSame ==
  ASSUME UNCHANGED <<req, chain>>, phase # "read" \/ req.route = "slash", phase' # "read"
  PROVE  Results' = Results /\ Answers' = Answers /\ Streams' = Streams
  <1>1. Last' = Last
    BY DEF Last
  <1>2. Results' = Results /\ Streams' = Streams
    BY <1>1 DEF Results, Streams, Whole
  <1> QED BY <1>2 DEF Answers

LEMMA LocalCourse ==
  ASSUME Inv, Course, NEW d \in Depth, Step(d) \/ Timer(d) \/ Fault(d),
         ~StartTimeout(d), ~FinishLate(d), ~StreamPanic(d)
  PROVE  Course'
  <1>1. Local(d)
    BY StepLocal
  <1>2. phase # "read"
    BY <1>1, Begun DEF Local
  <1>3. Placed'
    <2>1. \A e \in Depth \ {d} : pc'[e] = pc[e] /\ Element(e)' = Element(e)
      BY <1>1 DEF Local, Element
    <2>2. pc'[d].mode # "wait"
      BY <1>1 DEF Local
    <2> QED BY <2>1, <2>2, StepPlaced DEF Placed, Course
  <1>4. Whence'
    BY <1>1, <1>2, ResultsSame DEF Local, Whence, Course
  <1>5. OnCourse'
    <2> SUFFICES ASSUME NEW e \in Depth, Awaited(e)'
                 PROVE  /\ pc'[e].base = Start(e)'
                        /\ OnTheWay(pc[e], ctx[e], result[e], Goal(e))'
      BY DEF OnCourse
    <2>1. e # 0 => e - 1 \in Depth /\ e - 1 # d
      BY <1>1, MaxTimeoutsAssumption DEF Awaited, Depth, Local
    <2>2. Awaited(e) /\ Start(e)' = Start(e) /\ Goal(e)' = Goal(e)
      BY <1>1, <2>1 DEF Local, Awaited, Start, Goal
    <2>3. pc[e].base = Start(e) /\ OnTheWay(pc[e], ctx[e], result[e], Goal(e))
      BY <2>2 DEF Course, OnCourse
    <2>4. pc'[e].base = pc[e].base
      BY <1>1 DEF Local
    <2>5. PICK goal : goal = Goal(e)
      OBVIOUS
    <2>6. OnTheWay(pc[e], ctx[e], result[e], goal)'
      <3>1. OnTheWay(pc[e], ctx[e], result[e], goal)
        BY <2>3, <2>5
      <3>2. CASE e = d
        BY <3>1, <3>2, StepOn
      <3>3. CASE e # d
        BY <1>1, <3>1, <3>3 DEF Local, OnTheWay
      <3> QED BY <3>2, <3>3
    <2> QED BY <2>2, <2>3, <2>4, <2>5, <2>6
  <1> QED BY <1>3, <1>4, <1>5 DEF Course

\* A writer function's panic ends the process; who waited for the result of the
\* chain itself no longer does.
LEMMA StreamPanicCourse ==
  ASSUME Inv, Course, NEW d \in Depth, StreamPanic(d)
  PROVE  /\ Course' /\ UNCHANGED <<Results, Streams, answer>> /\ Streams
         /\ phase # "crashed" => phase = "run" \/ phase = "answered"
  <1>1. /\ phase' = "crashed" /\ UNCHANGED <<req, chain, ctx, pc, result, flushed, answer>>
        /\ pc[d].mode = "stream" /\ Element(d) = "stream"
    BY DEF StreamPanic, At, Course, Placed
  <1>2. /\ phase # "read" /\ req.route # "slash"
        /\ phase # "crashed" => phase = "run" \/ phase = "answered"
    BY <1>1, Begun DEF Inv, Typed
  <1>3. Results' = Results /\ Streams' = Streams
    BY <1>1, <1>2, ResultsSame
  <1>4. Streams
    BY <1>1, <1>2, There DEF Streams, Whole, Element
  <1>5. Placed' /\ Whence'
    BY <1>1 DEF Course, Placed, Whence, Element
  <1>6. OnCourse'
    <2>1. \A e \in Depth : Awaited(e)' => Awaited(e)
      BY <1>1 DEF Awaited
    <2>2. \A e \in Depth : Start(e)' = Start(e) /\ Goal(e)' = Goal(e)
      BY <1>1 DEF Start, Goal
    <2> QED BY <1>1, <2>1, <2>2 DEF Course, OnCourse, OnTheWay
  <1> QED BY <1>1, <1>2, <1>3, <1>4, <1>5, <1>6 DEF Course

\* A Timeout starts a goroutine for the elements below it.
LEMMA StartCourse ==
  ASSUME Inv, Course, NEW d \in Depth, StartTimeout(d)
  PROVE  Course'
  <1>1. /\ pc[d].mode = "down" /\ Element(d) = "timeout"
        /\ UNCHANGED <<req, chain, phase, result, flushed, answer>>
    BY DEF StartTimeout, At
  <1>2. /\ d + 1 \in Depth /\ d + 1 # d /\ d + 1 # 0 /\ (d + 1) - 1 = d
    <2>1. d + 1 \in Depth
      BY StartKeeps
    <2> QED BY <2>1, MaxTimeoutsAssumption DEF Depth
  <1>3. /\ pc'[d] = [pc[d] EXCEPT !.mode = "wait"]
        /\ pc'[d + 1] = [mode |-> "down", at |-> pc[d].at + 1, base |-> pc[d].at, err |-> 0]
        /\ ctx'[d + 1] = Copied(ctx[d])
        /\ \A e \in Depth \ {d, d + 1} : pc'[e] = pc[e]
        /\ \A e \in Depth \ {d + 1} : ctx'[e] = ctx[e]
    BY StartKeeps
  <1>4. /\ pc \in [Depth -> Place] /\ pc[d].at \in Nat /\ pc[d].base \in Nat
        /\ phase # "read" /\ Len(chain) \in Nat
    BY <1>1, There, Begun
  <1>5. /\ pc'[d].mode = "wait" /\ pc'[d].at = pc[d].at /\ pc'[d].base = pc[d].base
    BY <1>3, <1>4 DEF Place
  <1>6. /\ pc'[d + 1].mode = "down" /\ pc'[d + 1].at = pc[d].at + 1
        /\ pc'[d + 1].base = pc[d].at
    BY <1>3
  <1>7. Placed'
    <2>1. \A e \in Depth \ {d, d + 1} : pc'[e] = pc[e] /\ Element(e)' = Element(e)
      BY <1>1, <1>3 DEF Element
    <2>2. Element(d)' = Element(d)
      BY <1>1, <1>5 DEF Element
    <2> QED BY <1>1, <1>5, <1>6, <2>1, <2>2 DEF Placed, Course
  <1>8. Whence'
    BY <1>1, <1>4, ResultsSame DEF Whence, Course
  <1>9. OnCourse'
    <2> SUFFICES ASSUME NEW e \in Depth, Awaited(e)'
                 PROVE  /\ pc'[e].base = Start(e)'
                        /\ OnTheWay(pc[e], ctx[e], result[e], Goal(e))'
      BY DEF OnCourse
    <2>1. CASE e = d + 1
      <3> DEFINE goal == From(chain, req, pc[d].at + 1)[Copied(ctx[d])]
      <3>1. ctx'[d] = ctx[d]
        BY <1>2, <1>3
      <3>2. Start(e)' = pc[d].at /\ Goal(e)' = goal
        BY <1>1, <1>2, <1>5, <2>1, <3>1 DEF Start, Goal
      <3>3. Leads(chain, req, pc[d].at, pc[d].at + 1, goal, goal)
        BY <1>4, LeadsNowhere
      <3> HIDE DEF goal
      <3>4. From(chain, req, pc[d].at + 1)[ctx'[e]] = goal
        BY <1>3, <2>1 DEF goal
      <3> QED BY <1>1, <1>3, <3>4, <1>6, <2>1, <3>2, <3>3 DEF OnTheWay
    <2>2. CASE e # d + 1
      <3>1. e # 0 => e - 1 \in Depth /\ e - 1 # d
        BY <2>2, MaxTimeoutsAssumption DEF Depth
      <3>2. e # 0 => pc'[e - 1].mode = "wait"
        BY DEF Awaited
      <3>3. e # 0 => e - 1 # d + 1
        BY <1>6, <3>2
      <3>4. e # 0 => pc'[e - 1] = pc[e - 1] /\ ctx'[e - 1] = ctx[e - 1]
        BY <1>3, <3>1, <3>3
      <3>5. Awaited(e) /\ Start(e)' = Start(e) /\ Goal(e)' = Goal(e)
        BY <1>1, <3>1, <3>4 DEF Awaited, Start, Goal
      <3>6. pc[e].base = Start(e) /\ OnTheWay(pc[e], ctx[e], result[e], Goal(e))
        BY <3>5 DEF Course, OnCourse
      <3>7. ctx'[e] = ctx[e]
        BY <1>3, <2>2
      <3>8. CASE e = d
        BY <1>1, <1>5, <3>5, <3>6, <3>7, <3>8 DEF OnTheWay
      <3>9. CASE e # d
        <4>1. pc'[e] = pc[e]
          BY <1>3, <2>2, <3>9
        <4> QED BY <1>1, <3>5, <3>6, <3>7, <4>1 DEF OnTheWay
      <3> QED BY <3>8, <3>9
    <2> QED BY <2>1, <2>2
  <1> QED BY <1>7, <1>8, <1>9 DEF Course

\* Its goroutine sends what it has come to.
LEMMA FinishCourse ==
  ASSUME Inv, Course, NEW d \in Depth, FinishLate(d)
  PROVE  Course'
  <1>1. /\ pc[d].mode \in {"up", "panic"} /\ pc[d].at = pc[d].base
        /\ UNCHANGED <<req, chain, phase, ctx, flushed, answer>>
        /\ Move(d, "done", pc[d].at, pc[d].err) /\ d # 0
    BY MaxTimeoutsAssumption DEF FinishLate, Depth
  <1>2. /\ result'[d] = pc[d].err /\ pc'[d].mode = "done"
        /\ \A e \in Depth \ {d} : pc'[e] = pc[e] /\ result'[e] = result[e]
    BY FinishKeeps
  <1>3. /\ pc \in [Depth -> Place] /\ pc[d].at \in Nat /\ pc[d].base \in Nat /\ pc[d].err \in Nat
        /\ phase # "read"
    BY <1>1, There, Begun
  <1>4. pc'[d].base = pc[d].base
    BY <1>1, <1>3, MoveTyped DEF Modes
  <1>5. Placed'
    <2>1. \A e \in Depth \ {d} : pc'[e] = pc[e] /\ Element(e)' = Element(e)
      BY <1>1, <1>2 DEF Element
    <2> QED BY <1>1, <1>2, <2>1 DEF Placed, Course
  <1>6. Whence'
    BY <1>1, <1>3, ResultsSame DEF Whence, Course
  <1>7. OnCourse'
    <2> SUFFICES ASSUME NEW e \in Depth, Awaited(e)'
                 PROVE  /\ pc'[e].base = Start(e)'
                        /\ OnTheWay(pc[e], ctx[e], result[e], Goal(e))'
      BY DEF OnCourse
    <2>1. e # 0 => e - 1 \in Depth /\ e - 1 # d
      BY <1>2, MaxTimeoutsAssumption DEF Awaited, Depth
    <2>2. Awaited(e) /\ Start(e)' = Start(e) /\ Goal(e)' = Goal(e)
      BY <1>1, <1>2, <2>1 DEF Awaited, Start, Goal
    <2>3. pc[e].base = Start(e) /\ OnTheWay(pc[e], ctx[e], result[e], Goal(e))
      BY <2>2 DEF Course, OnCourse
    <2>4. CASE e = d
      <3> DEFINE goal == Goal(d)
      <3>1. \E r \in goal : r.s = ctx[d] /\ r.err = pc[d].err
        <4>1. CASE pc[d].mode = "up"
          <5>1. Leads(chain, req, pc[d].base, pc[d].base + 1, {Result(ctx[d], pc[d].err)}, goal)
            BY <1>1, <2>3, <2>4, <4>1 DEF OnTheWay
          <5>2. Result(ctx[d], pc[d].err) \in goal
            BY <1>3, <5>1, LeadsNowhere
          <5> QED BY <5>2 DEF Result
        <4>2. CASE pc[d].mode = "panic"
          <5>1. Leads(chain, req, pc[d].base, pc[d].base + 1, {Panics(ctx[d])}, goal)
            BY <1>1, <2>3, <2>4, <4>2 DEF OnTheWay
          <5>2. Panics(ctx[d]) \in goal /\ pc[d].err = 500
            BY <1>3, <4>2, <5>1, LeadsNowhere DEF Course, Placed
          <5> QED BY <5>2 DEF Panics
        <4> QED BY <1>1, <4>1, <4>2
      <3> QED BY <1>1, <1>2, <1>4, <2>2, <2>3, <2>4, <3>1 DEF OnTheWay
    <2>5. CASE e # d
      BY <1>1, <1>2, <2>2, <2>3, <2>5 DEF OnTheWay
    <2> QED BY <2>4, <2>5
  <1> QED BY <1>5, <1>6, <1>7 DEF Course

-----------------------------------------------------------------------------
(* The beginning and the end of the dispatch                               *)

\* A redirect for the slash is the only result of such a request.
LEMMA SlashAnswer ==
  ASSUME Inv, Course, RedirectSlash
  PROVE  answer' \in Answers
  <1>1. /\ req.route = "slash" /\ ctx[0] = Fresh(req.path)
        /\ answer' = Answer(SlashResponse(req, ctx[0]))
    BY DEF RedirectSlash, Course, Whence
  <1> DEFINE s == SlashResponse(req, Fresh(req.path))
             r == Result(s, 0)
  <1>2. SyncHeaders(s) = s
    <2>1. s.init = FALSE
      BY DEF SlashResponse, SendString, Fresh
    <2> QED BY <2>1 DEF SyncHeaders
  <1>3. r.err = 0 /\ r.s = s /\ ~r.panic
    BY DEF Result
  <1>4. r \in Results
    BY <1>1 DEF Results
  <1> HIDE DEF s, r
  <1>5. Respond(r) = Answer(s)
    BY <1>2, <1>3 DEF Respond
  <1>6. Respond(r) \in Answers
    BY <1>3, <1>4 DEF Answers
  <1> QED BY <1>1, <1>5, <1>6 DEF s

\* The results of the chain as it is when goroutine 0 ends.
LEMMA EndResult ==
  ASSUME Inv, Course, Finished
  PROVE  /\ Results = Goal(0) /\ phase = "run" /\ pc[0] \in Place /\ ctx[0] \in Context
         /\ pc[0].mode = "up" => Result(ctx[0], pc[0].err) \in Results
         /\ pc[0].mode = "panic" => Panics(ctx[0]) \in Results
  <1>1. 0 \in Depth /\ phase = "run" /\ pc[0].at = 0
    BY MaxTimeoutsAssumption DEF Depth, Finished
  <1>2. Awaited(0) /\ Start(0) = 0
    BY <1>1 DEF Awaited, Start
  <1>3. pc[0].base = 0 /\ OnTheWay(pc[0], ctx[0], result[0], Goal(0))
    BY <1>1, <1>2 DEF Course, OnCourse
  <1>4. req.route # "slash" /\ Len(chain) \in Nat /\ pc[0] \in Place /\ ctx[0] \in Context
    BY <1>1, <1>3, Begun DEF OnTheWay
  <1>5. Results = Goal(0)
    <2>1. Results = Run(chain, req)[Len(chain)][Fresh(req.path)]
      BY <1>1, <1>4 DEF Results, Whole
    <2>2. Goal(0) = From(chain, req, 0 + 1)[Fresh(req.path)]
      BY <1>2 DEF Goal
    <2>3. Len(chain) + 1 - (0 + 1) = Len(chain)
      BY <1>4
    <2> QED BY <2>1, <2>2, <2>3 DEF From
  <1>6. ASSUME NEW r, Leads(chain, req, pc[0].base, pc[0].at + 1, {r}, Goal(0))
        PROVE  r \in Results
    <2>1. Leads(chain, req, 0, 0 + 1, {r}, Goal(0))
      BY <1>1, <1>3, <1>6
    <2> QED BY <1>5, <2>1, LeadsNowhere
  <1> QED BY <1>1, <1>3, <1>4, <1>5, <1>6 DEF OnTheWay

LEMMA ReplyAnswer ==
  ASSUME Inv, Course, Reply
  PROVE  answer' \in Answers
  <1> DEFINE r == Result(ctx[0], pc[0].err)
  <1>1. /\ Finished /\ pc[0].mode = "up"
        /\ answer' = Answer(SyncHeaders(IF pc[0].err = 0 THEN ctx[0]
                                        ELSE ErrorResponse(ctx[0], pc[0].err)))
    BY DEF Reply, At
  <1>2. r \in Results
    BY <1>1, EndResult
  <1>3. r.s = ctx[0] /\ r.err = pc[0].err /\ ~r.panic
    BY DEF Result
  <1> HIDE DEF r
  <1>4. answer' = Respond(r)
    BY <1>1, <1>3 DEF Respond
  <1> QED BY <1>2, <1>3, <1>4 DEF Answers

LEMMA BeginCourse ==
  ASSUME Inv, Course, Begin
  PROVE  Course' /\ Results' = Results /\ Streams' = Streams
  <1>1. /\ phase = "read" /\ req.route # "slash" /\ phase' = "run"
        /\ chain' = Append(chain, Last) /\ chain \in Seq(Kind)
        /\ pc' = [pc EXCEPT ![0] = [@ EXCEPT !.mode = "down", !.at = 1]]
        /\ UNCHANGED <<req, ctx, result, flushed, answer>>
        /\ \A d \in Depth : pc[d] = Idle
        /\ pc \in [Depth -> Place] /\ ctx[0] = Fresh(req.path)
    BY DEF Begin, Inv, Typed, NotBegun, Course, Whence
  <1>2. 0 \in Depth
    BY MaxTimeoutsAssumption DEF Depth
  <1>3. /\ pc'[0].mode = "down" /\ pc'[0].at = 1 /\ pc'[0].base = 0
        /\ \A d \in Depth \ {0} : pc'[d].mode = "idle"
    BY <1>1, <1>2 DEF Idle
  <1>4. Results' = Results /\ Streams' = Streams
    <2>1. Last' = Last
      BY <1>1 DEF Last
    <2> QED BY <1>1, <2>1 DEF Results, Streams, Whole
  <1>5. Placed' /\ Whence'
    BY <1>1, <1>2, <1>3 DEF Placed, Whence, Course
  <1>6. OnCourse'
    <2> SUFFICES ASSUME NEW d \in Depth, Awaited(d)'
                 PROVE  /\ pc'[d].base = Start(d)'
                        /\ OnTheWay(pc[d], ctx[d], result[d], Goal(d))'
      BY DEF OnCourse
    <2>1. d = 0
      <3>1. d # 0 => d - 1 \in Depth
        BY MaxTimeoutsAssumption DEF Depth
      <3> QED BY <1>3, <3>1 DEF Awaited
    <2>2. Start(d)' = 0
      BY <2>1 DEF Start
    <2> DEFINE goal == From(chain', req, 1)[Fresh(req.path)]
    <2>3. Goal(d)' = goal
      BY <1>1, <2>1, <2>2 DEF Goal
    <2>4. From(chain', req, 1)[ctx'[0]] = goal
      BY <1>1
    <2> HIDE DEF goal
    <2>5. Leads(chain', req, 0, 0 + 1, goal, goal)
      <3>1. \A c, g : Leads(c, req, 0, 0 + 1, g, g)
        BY LeadsNowhere
      <3> QED BY <3>1
    <2> QED BY <1>1, <1>3, <2>1, <2>2, <2>3, <2>4, <2>5 DEF OnTheWay
  <1> QED BY <1>4, <1>5, <1>6 DEF Course

\* Once goroutine 0 is done, nobody waits for it.
LEMMA EndCourse ==
  ASSUME Inv, Course, Reply \/ Crash
  PROVE  Course' /\ Results' = Results /\ Streams' = Streams
  <1>1. /\ phase = "run" /\ phase' \in {"answered", "crashed"}
        /\ phase' = "answered" => Reply
        /\ UNCHANGED <<req, chain, ctx, result, flushed>>
        /\ \E err : Move(0, "done", 0, err)
    BY DEF Reply, Crash, Finished
  <1>2. 0 \in Depth /\ pc \in [Depth -> Place]
    BY MaxTimeoutsAssumption DEF Depth, Inv, Typed
  <1>3. pc'[0].mode = "done" /\ \A d \in Depth \ {0} : pc'[d] = pc[d]
    BY <1>1, <1>2 DEF Move, Place
  <1>4. Results' = Results /\ Answers' = Answers /\ Streams' = Streams
    BY <1>1, ResultsSame
  <1>5. Placed'
    <2>1. \A d \in Depth \ {0} : Element(d)' = Element(d)
      BY <1>1, <1>3 DEF Element
    <2> QED BY <1>1, <1>3, <2>1 DEF Placed, Course
  <1>6. Whence'
    BY <1>1, <1>4, ReplyAnswer DEF Whence
  <1>7. OnCourse'
    <2> SUFFICES ASSUME NEW d \in Depth, Awaited(d)'
                 PROVE  /\ pc'[d].base = Start(d)'
                        /\ OnTheWay(pc[d], ctx[d], result[d], Goal(d))'
      BY DEF OnCourse
    <2>1. d # 0
      BY <1>1 DEF Awaited
    <2>2. d - 1 \in Depth
      BY <2>1, MaxTimeoutsAssumption DEF Depth
    <2>3. d - 1 # 0
      BY <1>3, <2>1 DEF Awaited
    <2>4. pc'[d - 1] = pc[d - 1] /\ pc'[d] = pc[d]
      BY <1>3, <2>1, <2>2, <2>3
    <2>5. Awaited(d) /\ Start(d)' = Start(d) /\ Goal(d)' = Goal(d)
      BY <1>1, <2>1, <2>4 DEF Awaited, Start, Goal
    <2> QED BY <1>1, <2>4, <2>5 DEF Course, OnCourse, OnTheWay
  <1> QED BY <1>4, <1>5, <1>6, <1>7 DEF Course

LEMMA RedirectCourse ==
  ASSUME Inv, Course, RedirectSlash
  PROVE  Course' /\ Results' = Results /\ Streams' = Streams
  <1>1. /\ phase = "read" /\ phase' = "answered" /\ req.route = "slash"
        /\ UNCHANGED <<req, chain, ctx, pc, result, flushed>>
        /\ \A d \in Depth : pc[d] = Idle
    BY DEF RedirectSlash, Inv, NotBegun
  <1>2. Results' = Results /\ Answers' = Answers /\ Streams' = Streams
    BY <1>1, ResultsSame
  <1>3. Whence'
    BY <1>1, <1>2, SlashAnswer DEF Whence
  <1>4. Placed'
    BY <1>1 DEF Placed, Course, Idle, Element
  <1>5. OnCourse'
    <2>1. \A d \in Depth : d # 0 => d - 1 \in Depth
      BY MaxTimeoutsAssumption DEF Depth
    <2>2. \A d \in Depth : ~Awaited(d)'
      BY <1>1, <2>1 DEF Awaited, Idle
    <2> QED BY <2>2 DEF OnCourse
  <1> QED BY <1>2, <1>3, <1>4, <1>5 DEF Course

-----------------------------------------------------------------------------
(* The refinement                                                          *)

LEMMA CourseInit == Init => Course
  <1> SUFFICES ASSUME Init PROVE Course
    OBVIOUS
  <1>1. 0 \in Depth /\ \A d \in Depth : d # 0 => d - 1 \in Depth
    BY MaxTimeoutsAssumption DEF Depth
  <1>2. phase = "read" /\ flushed = 0 /\ \A d \in Depth : pc[d] = Idle
    BY DEF Init
  <1>3. OnCourse
    BY <1>1, <1>2 DEF OnCourse, Awaited, Idle
  <1>4. Placed
    BY <1>2, FlushAssumption DEF Placed, Idle
  <1>5. Whence
    BY <1>1 DEF Init, Whence
  <1> QED BY <1>3, <1>4, <1>5 DEF Course

LEMMA CourseNext == Inv /\ Course /\ [Next]_vars => Course'
  <1> SUFFICES ASSUME Inv, Course, [Next]_vars PROVE Course'
    OBVIOUS
  <1>1. CASE Serve
    BY <1>1, RedirectCourse, BeginCourse, EndCourse DEF Serve
  <1>2. ASSUME NEW d \in Depth, Step(d) \/ Timer(d) \/ Fault(d) PROVE Course'
    BY <1>2, StartCourse, FinishCourse, StreamPanicCourse, LocalCourse
  <1>3. CASE UNCHANGED vars
    <2>1. Results' = Results /\ Answers' = Answers
      <3>1. Last' = Last
        BY <1>3 DEF vars, Last
      <3>2. Results' = Results
        BY <1>3, <3>1 DEF vars, Results, Whole
      <3> QED BY <3>2 DEF Answers
    <2>2. Whence' /\ Placed'
      BY <1>3, <2>1 DEF vars, Whence, Placed, Element, Course
    <2>3. \A d \in Depth : Awaited(d)' = Awaited(d) /\ Start(d)' = Start(d) /\ Goal(d)' = Goal(d)
      BY <1>3 DEF vars, Awaited, Start, Goal
    <2>4. OnCourse'
      BY <1>3, <2>3 DEF vars, OnCourse, OnTheWay, Course
    <2> QED BY <2>2, <2>4 DEF Course
  <1> QED BY <1>1, <1>2, <1>3 DEF Next

LEMMA OnlyCourse == Spec => [](Inv /\ Course)
  <1>1. Init => Inv /\ Course
    BY InvInit, CourseInit
  <1>2. Inv /\ Course /\ [Next]_vars => (Inv /\ Course)'
    BY InvNext, CourseNext
  <1> QED BY <1>1, <1>2, PTL DEF Spec

\* A step of a goroutine answers nothing and leaves the results as they are.
LEMMA StepHidden ==
  ASSUME Inv, NEW d \in Depth, Step(d) \/ Timer(d) \/ Fault(d), ~StreamPanic(d)
  PROVE  UNCHANGED <<Results, Streams, phase, answer>>
  <1>1. UNCHANGED <<req, chain, phase, answer>> /\ phase # "read"
    <2>1. pc[d].mode # "idle"
      BY StepLocal DEF Local, StartTimeout, FinishLate, At
    <2>2. CASE StartTimeout(d) \/ FinishLate(d)
      BY <2>1, <2>2, Begun DEF StartTimeout, FinishLate
    <2>3. CASE ~StartTimeout(d) /\ ~FinishLate(d)
      BY <2>1, <2>3, Begun, StepLocal DEF Local
    <2> QED BY <2>2, <2>3
  <1> QED BY <1>1, ResultsSame

\* However goroutines and timers interleave, a request is answered once, with
\* the answer of its chain run by itself; or the process ends, by a panic the
\* chain run by itself would not have recovered either or by one of a streaming
\* handler's function.
THEOREM Refines == Spec => Implements
  <1>1. Init => E!Init
    BY DEF Init, E!Init
  <1>2. Inv /\ Course /\ [Next]_vars => [E!Next]_(E!vars)
    <2> SUFFICES ASSUME Inv, Course, [Next]_vars PROVE [E!Next]_(E!vars)
      OBVIOUS
    <2>1. CASE RedirectSlash
      <3>1. /\ Results' = Results /\ Answers' = Answers /\ answer' \in Answers
            /\ Streams' = Streams
        BY <2>1, RedirectCourse, SlashAnswer DEF Answers
      <3>2. phase = "read" /\ phase' = "answered"
        BY <2>1 DEF RedirectSlash
      <3> QED BY <3>1, <3>2 DEF E!Next, E!Reply, Answers, Streams
    <2>2. CASE Begin
      <3>1. Results' = Results /\ Streams' = Streams
        BY <2>2, BeginCourse
      <3>2. phase = "read" /\ phase' = "run" /\ answer' = answer
        BY <2>2 DEF Begin
      <3> QED BY <3>1, <3>2 DEF E!vars, Streams
    <2>3. CASE Reply
      <3>1. /\ Results' = Results /\ answer' \in Answers /\ Answers' = Answers
            /\ Streams' = Streams
        BY <2>3, EndCourse, ReplyAnswer DEF Answers
      <3>2. phase = "run" /\ phase' = "answered"
        BY <2>3 DEF Reply, Finished
      <3> QED BY <3>1, <3>2 DEF E!Next, E!Reply, Answers, Streams
    <2>4. CASE Crash
      <3>1. Results' = Results /\ Streams' = Streams
        BY <2>4, EndCourse
      <3>2. phase = "run" /\ phase' = "crashed" /\ answer' = answer
        BY <2>4 DEF Crash, Finished
      <3>3. Panics(ctx[0]) \in Results
        BY <2>4, EndResult DEF Crash, At
      <3>4. \E r \in Results : r.panic
        BY <3>3 DEF Panics
      <3> QED BY <3>1, <3>2, <3>4 DEF E!Next, E!Crash, Streams
    <2>5. ASSUME NEW d \in Depth, Step(d) \/ Timer(d) \/ Fault(d), ~StreamPanic(d)
          PROVE  UNCHANGED (E!vars)
      BY <2>5, StepHidden DEF E!vars, Streams
    <2>6. ASSUME NEW d \in Depth, phase # "crashed", StreamPanic(d) PROVE E!Next
      <3>1. /\ UNCHANGED <<Results, Streams, answer>> /\ Streams
            /\ phase = "run" \/ phase = "answered"
        BY <2>6, StreamPanicCourse
      <3>2. phase' = "crashed"
        BY <2>6 DEF StreamPanic
      <3> QED BY <3>1, <3>2 DEF E!Next, E!Crash, Streams
    <2>7. CASE UNCHANGED vars
      <3>1. Last' = Last
        BY <2>7 DEF vars, Last
      <3>2. Results' = Results /\ Streams' = Streams
        BY <2>7, <3>1 DEF vars, Results, Streams, Whole
      <3> QED BY <2>7, <3>2 DEF vars, E!vars, Streams
    <2>8. ASSUME NEW d \in Depth, Step(d) \/ Timer(d) \/ Fault(d) PROVE [E!Next]_(E!vars)
      <3>1. phase # "crashed"
        BY <2>8 DEF Step, Timer, Fault
      <3> QED BY <2>5, <2>6, <2>8, <3>1
    <2> QED BY <2>1, <2>2, <2>3, <2>4, <2>7, <2>8 DEF Next, Serve
  <1> QED BY <1>1, <1>2, OnlyCourse, PTL DEF Spec, Implements, E!Spec

\* An answer that is given is an answer of the chain run by itself.
THEOREM AnswersOfChain == Spec => [](phase = "answered" => answer \in Answers)
  <1>1. Course => (phase = "answered" => answer \in Answers)
    BY DEF Course, Whence
  <1> QED BY <1>1, OnlyCourse, PTL

-----------------------------------------------------------------------------
(* What the elements do to the headers                                     *)

\* t has the headers of s, in the response and in the writer's map.
Keeps(s, t) ==
  t.hdr = s.hdr /\ t.pend = s.pend /\ t.init = s.init /\ t.synced = s.synced

LEMMA SetEffect ==
  ASSUME NEW s \in Context, NEW h \in Header
  PROVE  /\ SetHeader(s, h).hdr = s.hdr /\ SetHeader(s, h).synced = s.synced
         /\ SetHeader(s, h).init = TRUE /\ SetHeader(s, h).pend[h] = 1
         /\ \A g \in Header \ {h} : SetHeader(s, h).pend[g] = s.pend[g]
         /\ AddHeader(s, h).hdr = s.hdr /\ AddHeader(s, h).synced = s.synced
         /\ AddHeader(s, h).init = TRUE
         /\ \A g \in Header \ {h} : AddHeader(s, h).pend[g] = s.pend[g]
  <1>1. s.pend \in [Header -> Nat]
    BY DEF Context
  <1>2. /\ SetHeader(s, h).hdr = s.hdr /\ SetHeader(s, h).synced = s.synced
        /\ SetHeader(s, h).init = TRUE /\ SetHeader(s, h).pend = [s.pend EXCEPT ![h] = 1]
    BY DEF SetHeader, Context
  <1>3. /\ AddHeader(s, h).hdr = s.hdr /\ AddHeader(s, h).synced = s.synced
        /\ AddHeader(s, h).init = TRUE /\ AddHeader(s, h).pend = [s.pend EXCEPT ![h] = @ + 1]
    BY DEF AddHeader, Context
  <1> QED BY <1>1, <1>2, <1>3

LEMMA SyncEffect ==
  ASSUME NEW s \in Context
  PROVE  /\ SyncHeaders(s).pend = s.pend /\ SyncHeaders(s).init = s.init
         /\ s.init /\ ~s.synced =>
              /\ SyncHeaders(s).synced
              /\ \A h \in Header : SyncHeaders(s).hdr[h] = s.hdr[h] + s.pend[h]
         /\ ~(s.init /\ ~s.synced) => SyncHeaders(s) = s
  BY DEF SyncHeaders, Context

LEMMA SendKeeps ==
  ASSUME NEW s \in Context, NEW code, NEW body
  PROVE  Keeps(s, SendString(s, code, body)) /\ Keeps(s, s)
  BY DEF SendString, Keeps, Context

LEMMA WriteKeeps ==
  ASSUME NEW s \in Context, NEW b \in Content, NEW code \in Nat
  PROVE  /\ Keeps(SyncHeaders(s), Write(s, b))
         /\ Keeps(SyncHeaders(s), Write(WriteHeader(s, code), b))
  <1> DEFINE t == SyncHeaders(s)
             u == WriteHeader(s, code)
  <1>1. t \in Context
    BY SyncTyped
  <1>2. u \in Context /\ Keeps(t, u)
    BY <1>1, WriteHeaderTyped DEF WriteHeader, Keeps, Context
  <1>3. SyncHeaders(u) = u
    <2>1. ~(t.init /\ ~t.synced)
      BY SyncEffect
    <2> HIDE DEF t, u
    <2>2. ~(u.init /\ ~u.synced)
      BY <1>2, <2>1 DEF Keeps
    <2> QED BY <1>2, <2>2, SyncEffect
  <1>4. Keeps(t, Write(s, b))
    BY <1>1 DEF Write, Keeps, Context
  <1>5. Keeps(u, Write(u, b))
    <2> HIDE DEF u
    <2> QED BY <1>2, <1>3 DEF Write, Keeps, Context
  <1> QED BY <1>2, <1>4, <1>5 DEF Keeps

\* The six things an element may do to the headers before Next.
LEMMA DownHeaders ==
  ASSUME NEW k, NEW q, NEW s \in Context, NEW o \in Down(k, q, s)
  PROVE  \/ Keeps(s, o.s)
         \/ o.go /\ Keeps([s EXCEPT !.hdr = Nothing], o.s)
         \/ k \in DOMAIN HeaderOf /\ Keeps(SetHeader(s, HeaderOf[k]), o.s)
         \/ o.go /\ Keeps(AddHeader(s, "cookie"), o.s)
         \/ ~o.go /\ \E h \in {"location", "icon"} : Keeps(SetHeader(s, h), o.s)
         \/ ~o.go /\ Keeps(SyncHeaders(s), o.s)
  <1>k. \A t : Keeps(t, t)
    BY DEF Keeps
  <1>g. \A t : Go(t).s = t /\ Go(t).go /\ \A n : Stop(t, n).s = t /\ ~Stop(t, n).go
    BY DEF Go, Stop
  <1>s. \A t \in Context : \A n, b : Keeps(t, SendString(t, n, b))
    BY SendKeeps
  <1>h. \A h \in {"rid", "security", "cors", "location", "icon"} : SetHeader(s, h) \in Context
    BY SetTyped DEF Header
  <1>1. CASE k = "requestid"
    <2>1. o = Go(SetHeader(s, "rid")) /\ k \in DOMAIN HeaderOf /\ HeaderOf[k] = "rid"
      BY <1>1 DEF Down, RequestID, HeaderOf
    <2> QED BY <2>1, <1>k, <1>g
  <1>2. CASE k = "helmet"
    <2>1. o = Go(SetHeader(s, "security")) /\ k \in DOMAIN HeaderOf /\ HeaderOf[k] = "security"
      BY <1>2 DEF Down, Helmet, HeaderOf
    <2> QED BY <2>1, <1>k, <1>g
  <1>3. CASE k = "cors"
    <2>1. o \in CORS(q, s) /\ k \in DOMAIN HeaderOf /\ HeaderOf[k] = "cors"
      BY <1>3 DEF Down, HeaderOf
    <2>2. \/ o = Go(s) \/ o = Go(SetHeader(s, "cors"))
          \/ o = Stop(SendString(SetHeader(s, "cors"), 204, <<>>), 0)
      BY <2>1 DEF CORS
    <2> QED BY <2>1, <2>2, <1>k, <1>g, <1>s, <1>h
  <1>4. CASE k = "csrf"
    <2>1. o = Go(AddHeader(s, "cookie")) \/ o = Stop(s, 403)
      BY <1>4 DEF Down, CSRF
    <2> QED BY <2>1, <1>k, <1>g
  <1>5. CASE k = "earlydata"
    <2>1. o = Go(s) \/ o = Stop(s, 425)
      BY <1>5 DEF Down, EarlyData
    <2> QED BY <2>1, <1>k, <1>g
  <1>6. CASE k = "redirect"
    <2>1. o = Go(s) \/ o = Stop(SendString(SetHeader(s, "location"), 302, <<>>), 0)
      BY <1>6 DEF Down, Redirect
    <2> QED BY <2>1, <1>k, <1>g, <1>s, <1>h
  <1>7. CASE k = "rewrite"
    <2>1. \A p : Keeps(s, [s EXCEPT !.path = p])
      BY DEF Keeps, Context
    <2>2. o = Go(s) \/ \E p \in Targets(RewriteRules, s.path) : o = Go([s EXCEPT !.path = p])
      <3>1. o \in Rewrite(q, s)
        BY <1>7 DEF Down
      <3>2. CASE Targets(RewriteRules, s.path) = {}
        BY <3>1, <3>2 DEF Rewrite
      <3>3. CASE Targets(RewriteRules, s.path) # {}
        BY <3>1, <3>3, Zenon DEF Rewrite
      <3> QED BY <3>2, <3>3
    <2>3. CASE o = Go(s)
      <3>1. o.s = s
        BY <2>3, <1>g
      <3> QED BY <3>1, <1>k
    <2>4. ASSUME NEW p, o = Go([s EXCEPT !.path = p]) PROVE Keeps(s, o.s)
      <3>1. o.s = [s EXCEPT !.path = p]
        BY <2>4, <1>g
      <3> QED BY <2>1, <3>1
    <2> QED BY <2>2, <2>3, <2>4
  <1>8. CASE k = "favicon"
    <2>1. o = Go(s) \/ o = Stop(SendString(SetHeader(s, "icon"), 200, <<"icon">>), 0)
      BY <1>8 DEF Down, Favicon
    <2> QED BY <2>1, <1>k, <1>g, <1>s, <1>h
  <1>9. CASE k = "static"
    <2> DEFINE t == [s EXCEPT !.path = Strip[s.path]]
               u == [t EXCEPT !.status = 404, !.hdr = Nothing, !.body = <<>>, !.stream = <<>>]
               v == [t EXCEPT !.status = 200, !.body = <<>>, !.stream = <<"file">>]
    <2>1. o = Go(s) \/ o = Stop(v, 0) \/ o = Go(u)
      BY <1>9 DEF Down, Static
    <2>2. Keeps(s, v) /\ Keeps([s EXCEPT !.hdr = Nothing], u)
      BY DEF Keeps, Context
    <2> HIDE DEF t, u, v
    <2> QED BY <2>1, <2>2, <1>k, <1>g
  <1>10. CASE k = "wrapped"
    <2>1. o = Go(s) \/ o = Stop(Write(WriteHeader(s, 403), "denied"), 0)
      BY <1>10 DEF Down, WrapDeny
    <2>2. Keeps(SyncHeaders(s), Write(WriteHeader(s, 403), "denied"))
      BY WriteKeeps DEF Content
    <2> QED BY <2>1, <2>2, <1>k, <1>g
  <1>11. CASE k \notin {"requestid", "helmet", "cors", "csrf", "earlydata", "redirect",
                        "rewrite", "favicon", "static", "wrapped"}
    <2>1. o = Go(s)
      BY <1>11 DEF Down
    <2> QED BY <2>1, <1>k, <1>g
  <1> QED BY <1>1, <1>2, <1>3, <1>4, <1>5, <1>6, <1>7, <1>8, <1>9, <1>10, <1>11

\* And the three things it may do after Next.
LEMMA UpHeaders ==
  ASSUME NEW k, NEW q, NEW s \in Context, NEW err
  PROVE  LET t == Up(k, q, s, err).s
         IN  \/ Keeps(s, t)
             \/ \E h \in {"etag", "rtime"} : Keeps(SetHeader(s, h), t)
             \/ /\ s.hdr["encoding"] = 0
                /\ Keeps([s EXCEPT !.hdr = [s.hdr EXCEPT !["encoding"] = 1]], t)
  <1>k. \A t : Keeps(t, t)
    BY DEF Keeps
  <1>1. CASE k = "etag"
    <2> DEFINE t == [s EXCEPT !.body = Answer(s).body, !.stream = <<>>]
               tagged == SetHeader(t, "etag")
               empty == [tagged EXCEPT !.body = <<>>, !.status = 304]
    <2>1. \/ Up(k, q, s, err).s = s \/ Up(k, q, s, err).s = tagged \/ Up(k, q, s, err).s = empty
      <3>1. \/ Up(k, q, s, err) = [s |-> s, err |-> err]
            \/ Up(k, q, s, err) = [s |-> tagged, err |-> err]
            \/ Up(k, q, s, err) = [s |-> empty, err |-> 0]
        BY <1>1, Zenon DEF Up, ETag
      <3> HIDE DEF tagged, empty
      <3> QED BY <3>1
    <2>2. Keeps(s, t)
      BY DEF Keeps, Context
    <2>3. Keeps(SetHeader(s, "etag"), tagged)
      <3>1. s.pend = t.pend
        BY <2>2 DEF Keeps
      <3> QED BY <2>2 DEF SetHeader, Keeps, Context, Header
    <2>4. Keeps(tagged, empty)
      BY DEF SetHeader, Keeps, Context
    <2> HIDE DEF tagged, empty
    <2>5. Keeps(s, Up(k, q, s, err).s) \/ Keeps(SetHeader(s, "etag"), Up(k, q, s, err).s)
      BY <2>1, <2>3, <2>4, <1>k DEF Keeps
    <2> QED BY <2>5
  <1>2. CASE k = "responsetime"
    <2>1. Up(k, q, s, err).s = SetHeader(s, "rtime")
      BY <1>2 DEF Up, ResponseTime
    <2> QED BY <2>1, <1>k
  <1>3. CASE k = "compress"
    <2> DEFINE t == [s EXCEPT !.hdr["encoding"] = 1,
                              !.body = IF s.stream # <<>> THEN @ ELSE <<"encoded">>]
    <2>1. \/ Up(k, q, s, err).s = s
          \/ s.hdr["encoding"] = 0 /\ Up(k, q, s, err).s = t
      BY <1>3 DEF Up, Compress
    <2>2. Keeps([s EXCEPT !.hdr = [s.hdr EXCEPT !["encoding"] = 1]], t)
      BY DEF Keeps, Context
    <2> HIDE DEF t
    <2> QED BY <2>1, <2>2, <1>k
  <1>4. CASE k \notin {"etag", "responsetime", "compress"}
    <2>1. Up(k, q, s, err).s = s
      BY <1>4 DEF Up
    <2> QED BY <2>1, <1>k
  <1> QED BY <1>1, <1>2, <1>3, <1>4

\* What a handler does.
LEMMA ReturnsHeaders ==
  ASSUME NEW s \in Context, NEW k \in Returning
  PROVE  LET t == Returns(k, s).s
         IN  \/ Keeps(s, t)
             \/ \E h \in Header : /\ h = "user" \/ Sends(k, h)
                                  /\ Keeps([s EXCEPT !.hdr = [s.hdr EXCEPT ![h] = 1]], t)
             \/ Keeps(SetHeader(s, "allow"), t)
             \/ Keeps(SyncHeaders(s), t) \/ Keeps(SyncHeaders(SetHeader(s, "user")), t)
  <1>k. \A t : Keeps(t, t)
    BY DEF Keeps
  <1>g. \A t : \A n : Stop(t, n).s = t
    BY DEF Stop
  <1>1. CASE k = "string"
    BY <1>1, <1>g, SendKeeps DEF Returns
  <1>2. CASE k = "echo"
    <2>1. Returns(k, s) = Stop(SendString(s, 200, <<"json">>), 0) \/ Returns(k, s) = Stop(s, 500)
      BY <1>2 DEF Returns, SendEcho
    <2> QED BY <2>1, <1>g, SendKeeps
  <1>3. CASE k \in {"own", "ownid"}
    <2>1. PICK h \in Header : Returns(k, s) = SendOwn(s, h) /\ (h = "user" \/ Sends(k, h))
      <3>1. CASE k = "own"
        BY <3>1 DEF Returns, Header
      <3>2. CASE k = "ownid"
        BY <3>2 DEF Returns, Header, Sends
      <3> QED BY <1>3, <3>1, <3>2
    <2> DEFINE sent == [s.hdr EXCEPT ![h] = 1]
               t == [s EXCEPT !.hdr = sent]
    <2>2. sent \in [Header -> Nat]
      BY DEF Context
    <2>3. t = [s EXCEPT !.hdr[h] = 1]
      BY DEF Context
    <2> HIDE DEF sent
    <2>4. t \in Context
      BY <2>2, FieldTyped
    <2>5. Returns(k, s).s = SendString(t, 200, <<"json">>)
      BY <2>1, <2>3, <1>g DEF SendOwn
    <2> HIDE DEF t
    <2>6. Keeps(t, Returns(k, s).s)
      BY <2>4, <2>5, SendKeeps
    <2> QED BY <2>1, <2>6 DEF t, sent
  <1>4. CASE k = "write"
    <2>1. SetHeader(s, "user") \in Context
      BY SetTyped DEF Header
    <2>2. Returns(k, s).s = Write(SetHeader(s, "user"), "text")
      BY <1>4, <1>g DEF Returns
    <2>3. Keeps(SyncHeaders(SetHeader(s, "user")), Returns(k, s).s)
      BY <2>1, <2>2, WriteKeeps DEF Content
    <2> QED BY <2>3
  <1>5. CASE k = "created" \/ k = "writefail"
    <2>1. \/ Returns(k, s).s = Write(WriteHeader(s, 201), "text")
          \/ Returns(k, s).s = Write(s, "text")
      <3>1. k = "created" => Returns(k, s) = Stop(Write(WriteHeader(s, 201), "text"), 0)
        BY SMTT(30) DEF Returns
      <3>2. k = "writefail" => Returns(k, s) = Stop(Write(s, "text"), 500)
        BY SMTT(30) DEF Returns
      <3> QED BY <1>5, <1>g, <3>1, <3>2
    <2>2. Keeps(SyncHeaders(s), Returns(k, s).s)
      BY <2>1, WriteKeeps DEF Content
    <2> QED BY <2>2
  <1>6. CASE k = "fail" \/ k = "notfound"
    <2>1. Returns(k, s).s = s
      BY <1>6, <1>g DEF Returns, NotFound
    <2> QED BY <2>1, <1>k
  <1>7. CASE k = "notallowed"
    <2>1. Returns(k, s).s = SetHeader(s, "allow")
      BY <1>7, <1>g DEF Returns, NotAllowed
    <2> QED BY <2>1, <1>k
  <1> QED BY <1>1, <1>2, <1>3, <1>4, <1>5, <1>6, <1>7 
         DEF Returning, Panicking, Terminal, Handlers

-----------------------------------------------------------------------------
(* Each header arrives once                                                *)

Owned == {"rid", "security", "cors"}

LEMMA OwnersKnown ==
  /\ DOMAIN HeaderOf = {"requestid", "helmet", "cors"}
  /\ \A k \in DOMAIN HeaderOf : HeaderOf[k] \in Owned
  /\ \A k, j \in DOMAIN HeaderOf : HeaderOf[k] = HeaderOf[j] => k = j
  BY DEF HeaderOf, Owned

\* No header but a doubled one is in the response and waits in the writer's map as
\* well, and those that elements set after Next have not been copied.
Once(s) ==
  /\ \A h \in Header \ {"cookie"} :
       ~Doubled(h) => s.hdr[h] + (IF s.synced THEN 0 ELSE s.pend[h]) <= 1
  /\ s.hdr["etag"] = 0 /\ s.hdr["rtime"] = 0 /\ s.pend["encoding"] = 0

\* A context on its way down: all headers wait in the map, each once.
Fit(s) ==
  /\ s.hdr = Nothing /\ ~s.synced
  /\ \A h \in Header \ {"cookie"} : s.pend[h] <= 1
  /\ s.pend["etag"] = 0 /\ s.pend["rtime"] = 0 /\ s.pend["encoding"] = 0

\* And those that wait were set by an element above element i.
Clean(i, s) ==
  /\ s.hdr = Nothing /\ ~s.synced
  /\ \A h \in Header \ {"cookie"} :
       /\ s.pend[h] <= 1
       /\ s.pend[h] # 0 => \E j \in 1 .. i - 1 : Queues(chain[j], h)

Sets(k, h) == Queues(k, h) \/ Sends(k, h)

\* From context s, the elements from i on make t: headers none of them sets are
\* not in its response.
Untouched(i, s, t) ==
  \A h \in Owned :
    s.pend[h] = 0 /\ (\A l \in i .. Len(chain) : ~Sets(chain[l], h)) => t.hdr[h] = 0

LEMMA CleanFit == ASSUME NEW i, NEW s, Clean(i, s) PROVE Fit(s)
  <1>1. "etag" \in Header \ {"cookie"} /\ "rtime" \in Header \ {"cookie"}
        /\ "encoding" \in Header \ {"cookie"}
    BY DEF Header
  <1>2. \A h \in {"etag", "rtime", "encoding"} : \A k : ~Queues(k, h)
    BY OwnersKnown DEF Owned, Queues
  <1> QED BY <1>1, <1>2 DEF Clean, Fit

LEMMA FitKept ==
  ASSUME NEW s, NEW t, Keeps(s, t)
  PROVE  /\ Fit(s) => Fit(t)
         /\ Once(s) => Once(t)
         /\ \A i : Clean(i, s) => Clean(i, t)
  BY DEF Keeps, Fit, Once, Clean

LEMMA FitSet ==
  ASSUME NEW s \in Context, Fit(s), NEW h \in Header \ {"cookie", "etag", "rtime", "encoding"}
  PROVE  Fit(SetHeader(s, h))
  <1> DEFINE t == SetHeader(s, h)
  <1>1. {"etag", "rtime", "encoding"} \subseteq Header \ {h}
    BY DEF Header
  <1>2. /\ t.hdr = s.hdr /\ t.synced = s.synced /\ t.pend[h] = 1
        /\ \A g \in Header \ {h} : t.pend[g] = s.pend[g]
    BY SetEffect
  <1> HIDE DEF t
  <1>3. \A g \in Header \ {"cookie"} : t.pend[g] <= 1
    <2> TAKE g \in Header \ {"cookie"}
    <2>1. CASE g = h
      BY <1>2, <2>1
    <2>2. CASE g # h
      BY <1>2, <2>2 DEF Fit
    <2> QED BY <2>1, <2>2
  <1>4. Fit(t)
    BY <1>1, <1>2, <1>3 DEF Fit
  <1> QED BY <1>4 DEF t

LEMMA FitOnce ==
  ASSUME NEW s \in Context, Fit(s)
  PROVE  /\ Once(s) /\ Once(SyncHeaders(s))
         /\ \A h \in Header : s.pend[h] = 0 => s.hdr[h] = 0 /\ SyncHeaders(s).hdr[h] = 0
  <1>1. {"etag", "rtime", "encoding"} \subseteq Header
    BY DEF Header
  <1>2. \A h \in Header : s.hdr[h] = 0 /\ s.pend[h] \in Nat
    BY DEF Fit, Nothing, Context
  <1>3. Once(s)
    BY <1>1, <1>2 DEF Fit, Once
  <1>4. CASE s.init /\ ~s.synced
    <2>1. /\ SyncHeaders(s).synced /\ SyncHeaders(s).pend = s.pend
          /\ \A h \in Header : SyncHeaders(s).hdr[h] = s.pend[h]
      BY <1>2, <1>4, SyncEffect
    <2>2. Once(SyncHeaders(s))
      BY <1>1, <1>2, <2>1 DEF Fit, Once
    <2> QED BY <1>2, <1>3, <2>1, <2>2
  <1>5. CASE ~(s.init /\ ~s.synced)
    BY <1>2, <1>3, <1>5, SyncEffect
  <1> QED BY <1>4, <1>5

LEMMA DownOnce ==
  ASSUME chain \in Seq(Kind), NEW i \in 1 .. Len(chain), NEW s \in Context, Clean(i, s),
         NEW o \in Down(chain[i], req, s)
  PROVE  /\ o.go => Clean(i + 1, o.s)
         /\ ~o.go => Once(o.s)
         /\ \A h \in Owned : ~Queues(chain[i], h) /\ s.pend[h] = 0 =>
              /\ o.go => o.s.pend[h] = 0
              /\ ~o.go => o.s.hdr[h] = 0
  <1>0. Fit(s)
    BY CleanFit
  <1>1. /\ Owned \subseteq Header \ {"cookie", "etag", "rtime", "encoding"}
        /\ {"location", "icon"} \subseteq Header \ {"cookie", "etag", "rtime", "encoding"}
        /\ Owned \cap {"location", "icon", "cookie"} = {} /\ "cookie" \in Header
        /\ \A k \in DOMAIN HeaderOf : HeaderOf[k] \in Owned
    BY OwnersKnown DEF Owned, Header
  <1>2. /\ Once(s) /\ Once(SyncHeaders(s))
        /\ \A h \in Header : s.pend[h] = 0 => s.hdr[h] = 0 /\ SyncHeaders(s).hdr[h] = 0
    BY <1>0, FitOnce
  <1>3. Clean(i + 1, s)
    <2>1. 1 .. i - 1 \subseteq 1 .. (i + 1) - 1
      OBVIOUS
    <2> QED BY <2>1 DEF Clean
  <1>4. CASE Keeps(s, o.s)
    <2>1. Clean(i + 1, o.s) /\ Once(o.s)
      BY <1>2, <1>3, <1>4, FitKept
    <2> QED BY <1>1, <1>2, <1>4, <2>1 DEF Keeps
  <1>5. CASE o.go /\ Keeps([s EXCEPT !.hdr = Nothing], o.s)
    <2>1. [s EXCEPT !.hdr = Nothing] = s
      BY DEF Clean, Context
    <2> QED BY <1>4, <1>5, <2>1
  <1>6. CASE chain[i] \in DOMAIN HeaderOf /\ Keeps(SetHeader(s, HeaderOf[chain[i]]), o.s)
    <2> DEFINE h == HeaderOf[chain[i]]
               t == SetHeader(s, h)
    <2>1. h \in Header \ {"cookie", "etag", "rtime", "encoding"} /\ t \in Context
      BY <1>1, <1>6, SetTyped
    <2>2. /\ t.hdr = s.hdr /\ t.synced = s.synced /\ t.pend[h] = 1
          /\ \A g \in Header \ {h} : t.pend[g] = s.pend[g]
      BY <2>1, SetEffect
    <2>3. Queues(chain[i], h) /\ i \in 1 .. (i + 1) - 1
      BY <1>6 DEF Queues
    <2>4. Fit(t)
      BY <1>0, <2>1, FitSet
    <2>5. \A g \in Owned : ~Queues(chain[i], g) => g # h /\ g \in Header
      BY <1>1, <2>3
    <2> HIDE DEF h, t
    <2>6. Clean(i + 1, t)
      BY <1>3, <2>2, <2>3 DEF Clean
    <2>7. Once(t)
      BY <2>1, <2>4, FitOnce
    <2>8. Clean(i + 1, o.s) /\ Once(o.s) /\ o.s.hdr = t.hdr /\ o.s.pend = t.pend
      BY <1>6, <2>6, <2>7, FitKept DEF Keeps, t, h
    <2> QED BY <1>2, <2>2, <2>5, <2>8
  <1>7. CASE o.go /\ Keeps(AddHeader(s, "cookie"), o.s)
    <2> DEFINE t == AddHeader(s, "cookie")
    <2>1. /\ t.hdr = s.hdr /\ t.synced = s.synced
          /\ \A g \in Header \ {"cookie"} : t.pend[g] = s.pend[g]
      BY <1>1, SetEffect
    <2> HIDE DEF t
    <2>2. Clean(i + 1, t)
      BY <1>3, <2>1 DEF Clean
    <2>3. Clean(i + 1, o.s) /\ o.s.pend = t.pend
      BY <1>7, <2>2, FitKept DEF Keeps, t
    <2> QED BY <1>1, <1>7, <2>1, <2>3
  <1>8. CASE ~o.go /\ \E h \in {"location", "icon"} : Keeps(SetHeader(s, h), o.s)
    <2>1. PICK h \in {"location", "icon"} : Keeps(SetHeader(s, h), o.s)
      BY <1>8
    <2>2. Fit(SetHeader(s, h)) /\ SetHeader(s, h) \in Context
      BY <1>0, <1>1, FitSet, SetTyped
    <2>3. Once(o.s)
      BY <2>1, <2>2, FitOnce, FitKept
    <2>4. o.s.hdr = s.hdr
      BY <1>1, <2>1, SetEffect DEF Keeps
    <2> QED BY <1>1, <1>2, <1>8, <2>3, <2>4
  <1>9. CASE ~o.go /\ Keeps(SyncHeaders(s), o.s)
    <2>1. Once(o.s) /\ o.s.hdr = SyncHeaders(s).hdr
      BY <1>2, <1>9, FitKept DEF Keeps
    <2> QED BY <1>1, <1>2, <1>9, <2>1
  <1> QED BY <1>4, <1>5, <1>6, <1>7, <1>8, <1>9, DownHeaders

LEMMA UpOnce ==
  ASSUME NEW k, NEW s \in Context, Once(s), NEW err
  PROVE  /\ Once(Up(k, req, s, err).s)
         /\ \A h \in Owned : Up(k, req, s, err).s.hdr[h] = s.hdr[h]
  <1> DEFINE t == Up(k, req, s, err).s
             u == [s EXCEPT !.hdr = [s.hdr EXCEPT !["encoding"] = 1]]
  <1>1. /\ Owned \subseteq Header /\ Owned \cap {"etag", "rtime", "encoding"} = {}
        /\ {"etag", "rtime", "encoding"} \subseteq Header \ {"cookie"}
    BY DEF Owned, Header
  <1>2. \A h \in Header : s.hdr[h] \in Nat /\ s.pend[h] \in Nat
    BY DEF Context
  <1>3. \/ Keeps(s, t) \/ \E h \in {"etag", "rtime"} : Keeps(SetHeader(s, h), t)
        \/ s.hdr["encoding"] = 0 /\ Keeps(u, t)
    BY UpHeaders
  <1>4. /\ u.pend = s.pend /\ u.synced = s.synced /\ u.hdr["encoding"] = 1
        /\ \A g \in Header \ {"encoding"} : u.hdr[g] = s.hdr[g]
    BY <1>1 DEF Context
  <1> HIDE DEF t, u
  <1>5. CASE Keeps(s, t)
    BY <1>5, FitKept DEF Keeps, t
  <1>6. ASSUME NEW h \in {"etag", "rtime"}, Keeps(SetHeader(s, h), t)
        PROVE  Once(t) /\ \A g \in Owned : t.hdr[g] = s.hdr[g]
    <2> DEFINE v == SetHeader(s, h)
    <2>1. /\ v.hdr = s.hdr /\ v.synced = s.synced /\ v.pend[h] = 1
          /\ \A g \in Header \ {h} : v.pend[g] = s.pend[g]
      <3>1. h \in Header
        BY <1>1
      <3> QED BY <3>1, SetEffect
    <2>2. s.hdr[h] = 0 /\ h # "encoding"
      BY <1>6 DEF Once
    <2>3. Keeps(v, t)
      BY <1>6
    <2> HIDE DEF v
    <2>4. \A g \in Header \ {"cookie"} :
            ~Doubled(g) => v.hdr[g] + (IF v.synced THEN 0 ELSE v.pend[g]) <= 1
      <3> TAKE g \in Header \ {"cookie"}
      <3>1. CASE g = h
        BY <2>1, <2>2, <3>1
      <3>2. CASE g # h
        BY <2>1, <3>2 DEF Once
      <3> QED BY <3>1, <3>2
    <2>5. Once(v)
      BY <1>1, <2>1, <2>2, <2>4 DEF Once
    <2> QED BY <2>1, <2>3, <2>5, FitKept DEF Keeps
  <1>7. CASE s.hdr["encoding"] = 0 /\ Keeps(u, t)
    <2>1. \A g \in Header \ {"cookie"} :
            ~Doubled(g) => u.hdr[g] + (IF u.synced THEN 0 ELSE u.pend[g]) <= 1
      <3> TAKE g \in Header \ {"cookie"}
      <3>1. CASE g = "encoding"
        BY <1>4, <3>1 DEF Once
      <3>2. CASE g # "encoding"
        BY <1>4, <3>2 DEF Once
      <3> QED BY <3>1, <3>2
    <2>2. u.hdr["etag"] = s.hdr["etag"] /\ u.hdr["rtime"] = s.hdr["rtime"]
      BY <1>4 DEF Header
    <2>3. Once(u)
      BY <1>4, <2>1, <2>2 DEF Once
    <2>4. Once(t) /\ t.hdr = u.hdr
      BY <1>7, <2>3, FitKept DEF Keeps
    <2> QED BY <1>1, <1>4, <2>4 DEF t
  <1> QED BY <1>3, <1>5, <1>6, <1>7 DEF t

LEMMA HandlerOnce ==
  ASSUME chain \in Seq(Kind), NEW i \in 1 .. Len(chain), chain[i] \in Terminal,
         NEW s \in Context, Clean(i, s), NEW r \in RunHandler(chain[i], s)
  PROVE  /\ Once(r.s)
         /\ \A h \in Owned : s.pend[h] = 0 /\ ~Sends(chain[i], h) => r.s.hdr[h] = 0
  <1>0. Fit(s) /\ "user" \in Header /\ "allow" \in Header /\ Owned \subseteq Header
    BY CleanFit DEF Owned, Header
  <1>1. /\ Once(s) /\ Once(SyncHeaders(s))
        /\ \A h \in Header : s.pend[h] = 0 => s.hdr[h] = 0 /\ SyncHeaders(s).hdr[h] = 0
    BY <1>0, FitOnce
  <1>2. s.pend["user"] = 0
    <2>1. "user" \in Header \ {"cookie"} /\ \A k : ~Queues(k, "user")
      BY OwnersKnown DEF Owned, Header, Queues
    <2> QED BY <2>1 DEF Clean
  <1>3. "user" \notin Owned /\ "allow" \notin Owned
        /\ {"user", "allow"} \cap {"cookie", "etag", "rtime", "encoding"} = {}
    BY DEF Owned
  <1> DEFINE u(h) == [s EXCEPT !.hdr = [s.hdr EXCEPT ![h] = 1]]
  <1>4. ASSUME NEW h \in Header, h = "user" \/ Sends(chain[i], h)
        PROVE  Once(u(h)) /\ \A g \in Header \ {h} : u(h).hdr[g] = s.hdr[g]
    <2> DEFINE v == u(h)
    <2>1. /\ v.pend = s.pend /\ v.synced = s.synced /\ v.hdr[h] = 1
          /\ \A g \in Header \ {h} : v.hdr[g] = s.hdr[g]
      BY DEF Context
    <2>2. ~Doubled(h) => s.pend[h] = 0
      <3>1. CASE h = "user"
        BY <1>2, <3>1
      <3>2. CASE Sends(chain[i], h) /\ s.pend[h] # 0
        <4>1. h \in Header \ {"cookie"}
          BY <3>2 DEF Sends
        <4>2. PICK j \in 1 .. i - 1 : Queues(chain[j], h)
          BY <3>2, <4>1 DEF Clean
        <4>3. j \in 1 .. Len(chain) /\ j < i
          OBVIOUS
        <4> QED BY <3>2, <4>2, <4>3 DEF Doubled
      <3> QED BY <1>4, <3>1, <3>2
    <2>3. h \notin {"etag", "rtime"}
      BY <1>4 DEF Sends
    <2> HIDE DEF v
    <2>4. \A g \in Header \ {"cookie"} :
            ~Doubled(g) => v.hdr[g] + (IF v.synced THEN 0 ELSE v.pend[g]) <= 1
      <3> TAKE g \in Header \ {"cookie"}
      <3>1. CASE g = h
        BY <2>1, <2>2, <3>1
      <3>2. CASE g # h
        BY <1>1, <2>1, <3>2 DEF Once
      <3> QED BY <3>1, <3>2
    <2>5. {"etag", "rtime"} \subseteq Header \ {h}
      BY <2>3 DEF Header
    <2>6. Once(v)
      BY <1>1, <2>1, <2>4, <2>5 DEF Once
    <2> QED BY <2>1, <2>6 DEF v
  <1>5. \A h \in {"user", "allow"} :
          LET t == SetHeader(s, h)
          IN  /\ Once(t) /\ Once(SyncHeaders(t))
              /\ \A g \in Owned : s.pend[g] = 0 => t.hdr[g] = 0 /\ SyncHeaders(t).hdr[g] = 0
    <2> SUFFICES ASSUME NEW h \in {"user", "allow"}
                 PROVE  LET t == SetHeader(s, h)
                        IN  /\ Once(t) /\ Once(SyncHeaders(t))
                            /\ \A g \in Owned : s.pend[g] = 0 =>
                                 t.hdr[g] = 0 /\ SyncHeaders(t).hdr[g] = 0
      OBVIOUS
    <2> DEFINE t == SetHeader(s, h)
    <2>1. Fit(t) /\ t \in Context
      BY <1>0, <1>3, FitSet, SetTyped
    <2>2. \A g \in Owned : t.pend[g] = s.pend[g]
      <3>1. h \in Header /\ Owned \subseteq Header \ {h}
        BY <1>0, <1>3
      <3>2. \A g \in Header \ {h} : t.pend[g] = s.pend[g]
        BY <3>1, SetEffect
      <3> QED BY <3>1, <3>2
    <2> HIDE DEF t
    <2>3. /\ Once(t) /\ Once(SyncHeaders(t))
          /\ \A g \in Owned : s.pend[g] = 0 => t.hdr[g] = 0 /\ SyncHeaders(t).hdr[g] = 0
      BY <1>0, <2>1, <2>2, FitOnce
    <2> QED BY <2>3 DEF t
  <1> HIDE DEF u
  <1>6. CASE chain[i] \in Returning
    <2> DEFINE t == Returns(chain[i], s).s
    <2>1. r.s = t
      <3>1. RunHandler(chain[i], s) = {Result(t, Returns(chain[i], s).err)}
        BY <1>6, HandlerResults
      <3> HIDE DEF t
      <3> QED BY <3>1 DEF Result
    <2>2. \/ Keeps(s, t)
          \/ \E h \in Header : (h = "user" \/ Sends(chain[i], h)) /\ Keeps(u(h), t)
          \/ Keeps(SetHeader(s, "allow"), t)
          \/ Keeps(SyncHeaders(s), t) \/ Keeps(SyncHeaders(SetHeader(s, "user")), t)
      BY <1>6, ReturnsHeaders DEF u
    <2> HIDE DEF t
    <2>3. CASE Keeps(s, t)
      BY <1>0, <1>1, <2>1, <2>3, FitKept DEF Keeps
    <2>4. ASSUME NEW h \in Header, h = "user" \/ Sends(chain[i], h), Keeps(u(h), t)
          PROVE  /\ Once(r.s)
                 /\ \A g \in Owned : s.pend[g] = 0 /\ ~Sends(chain[i], g) => r.s.hdr[g] = 0
      <3>1. Once(u(h)) /\ \A g \in Header \ {h} : u(h).hdr[g] = s.hdr[g]
        BY <1>4, <2>4
      <3>2. Once(t) /\ t.hdr = u(h).hdr
        BY <2>4, <3>1, FitKept DEF Keeps
      <3> QED BY <1>0, <1>1, <1>3, <2>1, <2>4, <3>1, <3>2
    <2>5. CASE Keeps(SetHeader(s, "allow"), t)
      BY <1>5, <2>1, <2>5, FitKept DEF Keeps
    <2>6. CASE Keeps(SyncHeaders(s), t)
      BY <1>0, <1>1, <2>1, <2>6, FitKept DEF Keeps
    <2>7. CASE Keeps(SyncHeaders(SetHeader(s, "user")), t)
      BY <1>5, <2>1, <2>7, FitKept DEF Keeps
    <2> QED BY <2>2, <2>3, <2>4, <2>5, <2>6, <2>7
  <1>7. CASE chain[i] \in Panicking
    <2>1. r.s = s
      BY <1>7, HandlerResults DEF Panics
    <2> QED BY <1>0, <1>1, <2>1
  <1>8. CASE chain[i] = "stream"
    <2>1. r.s = Streamed(s)
      BY <1>8, HandlerResults DEF Result
    <2>2. Keeps(u("user"), Streamed(s))
      BY DEF Keeps, Streamed, Context, u
    <2>3. Once(u("user")) /\ \A g \in Header \ {"user"} : u("user").hdr[g] = s.hdr[g]
      BY <1>0, <1>4
    <2>4. Once(r.s) /\ r.s.hdr = u("user").hdr
      BY <2>1, <2>2, <2>3, FitKept DEF Keeps
    <2> QED BY <1>0, <1>1, <1>3, <2>3, <2>4
  <1>9. chain[i] # "hang"
    BY HandlerResults
  <1> QED BY <1>6, <1>7, <1>8, <1>9 DEF Returning

\* A Timeout: its own error leaves the headers, and a result of the copy brings
\* one that waits in the original's map only if it is set on both sides.
LEMMA TimeoutOnce ==
  ASSUME chain \in Seq(Kind), NEW i \in 1 .. Len(chain), chain[i] = "timeout",
         NEW s \in Context, Clean(i, s), NEW t \in Context, Once(t),
         Untouched(i + 1, Copied(s), t)
  PROVE  Once(CopyBack(s, t)) /\ Untouched(i, s, CopyBack(s, t))
  <1> DEFINE u == CopyBack(s, t)
  <1>1. u.hdr = t.hdr /\ u.pend = s.pend /\ u.synced = s.synced
    BY DEF CopyBack, Context
  <1>2. \A h \in Header : Copied(s).pend[h] = 0 /\ t.hdr[h] \in Nat /\ t.pend[h] \in Nat
                          /\ s.pend[h] \in Nat
    BY DEF Copied, Fresh, Nothing, Context
  <1>3. Owned \subseteq Header
    BY DEF Owned, Header
  <1>4. \A h \in Owned : (\A l \in i + 1 .. Len(chain) : ~Sets(chain[l], h)) => t.hdr[h] = 0
    BY <1>2, <1>3 DEF Untouched
  <1>5. \A h \in Header \ {"cookie"} : ~Doubled(h) => t.hdr[h] + s.pend[h] <= 1
    <2> SUFFICES ASSUME NEW h \in Header \ {"cookie"}, ~Doubled(h)
                 PROVE  t.hdr[h] + s.pend[h] <= 1
      OBVIOUS
    <2>1. CASE s.pend[h] = 0
      <3>1. t.hdr[h] <= 1
        BY <1>2 DEF Once
      <3> QED BY <1>2, <2>1, <3>1
    <2>2. CASE s.pend[h] # 0
      <3>1. PICK j \in 1 .. i - 1 : Queues(chain[j], h)
        BY <2>2 DEF Clean
      <3>2. \A l \in i + 1 .. Len(chain) : ~Sets(chain[l], h)
        <4> TAKE l \in i + 1 .. Len(chain)
        <4>1. /\ j \in 1 .. Len(chain) /\ l \in 1 .. Len(chain) /\ j < l
              /\ i \in j + 1 .. l - 1
          OBVIOUS
        <4> QED BY <3>1, <4>1 DEF Doubled, Sets
      <3>3. h \in Owned
        BY <3>1, OwnersKnown DEF Queues
      <3>4. t.hdr[h] = 0
        BY <1>4, <3>2, <3>3
      <3> QED BY <1>2, <3>4 DEF Clean
    <2> QED BY <2>1, <2>2
  <1>6. ~s.synced /\ s.pend["encoding"] = 0
    BY CleanFit DEF Fit
  <1> HIDE DEF u
  <1>7. Once(u)
    BY <1>1, <1>5, <1>6 DEF Once
  <1>8. Untouched(i, s, u)
    <2>1. i + 1 .. Len(chain) \subseteq i .. Len(chain)
      OBVIOUS
    <2> QED BY <1>1, <1>4, <2>1 DEF Untouched
  <1> QED BY <1>7, <1>8 DEF u

LEMMA AroundOnce ==
  ASSUME NEW k, NEW r \in Ending, Once(r.s)
  PROVE  /\ Once(Around(k, req, r).s)
         /\ \A h \in Owned : Around(k, req, r).s.hdr[h] = r.s.hdr[h]
  <1>1. r.s \in Context
    BY DEF Ending
  <1>2. Around(k, req, r).s = r.s \/ Around(k, req, r).s = Up(k, req, r.s, r.err).s
    BY DEF Around, Result
  <1> QED BY <1>1, <1>2, UpOnce

\* The elements from i on keep each header to one.
OnceFrom(i) ==
  \A s \in Context : Clean(i, s) =>
    \A r \in From(chain, req, i)[s] : Once(r.s) /\ Untouched(i, s, r.s)

LEMMA ElementOnce ==
  ASSUME chain \in Seq(Kind), NEW i \in 1 .. Len(chain), OnceFrom(i + 1)
  PROVE  OnceFrom(i)
  <1> SUFFICES ASSUME NEW s \in Context, Clean(i, s), NEW t \in From(chain, req, i)[s]
               PROVE  Once(t.s) /\ Untouched(i, s, t.s)
    BY DEF OnceFrom
  <1>0. Len(chain) \in Nat /\ i \in i .. Len(chain) /\ i + 1 .. Len(chain) \subseteq i .. Len(chain)
    OBVIOUS
  <1>1. \A h \in Owned : ~Sets(chain[i], h) => ~Queues(chain[i], h) /\ ~Sends(chain[i], h)
    BY DEF Sets
  <1>2. Fit(s) /\ Owned \subseteq Header
    BY CleanFit DEF Owned, Header
  <1>3. CASE chain[i] \in Terminal
    <2>1. t \in RunHandler(chain[i], s)
      BY <1>0, <1>3, FromHandler
    <2>2. /\ Once(t.s)
          /\ \A h \in Owned : s.pend[h] = 0 /\ ~Sends(chain[i], h) => t.s.hdr[h] = 0
      BY <1>3, <2>1, HandlerOnce
    <2> QED BY <1>0, <1>1, <2>2 DEF Untouched
  <1>4. CASE chain[i] = "timeout"
    <2>0. PICK code : code = 408
      OBVIOUS
    <2>1. \/ t = Result(s, code)
          \/ \E r \in From(chain, req, i + 1)[Copied(s)] : t = Result(CopyBack(s, r.s), r.err)
      BY <1>0, <1>4, <2>0, FromTimeout
    <2>2. CASE t = Result(s, code)
      <3>1. t.s = s
        BY <2>2 DEF Result
      <3> QED BY <1>2, <3>1, FitOnce DEF Untouched
    <2>3. ASSUME NEW r \in From(chain, req, i + 1)[Copied(s)],
                 t = Result(CopyBack(s, r.s), r.err)
          PROVE  Once(t.s) /\ Untouched(i, s, t.s)
      <3>1. Copied(s) \in Context /\ Clean(i + 1, Copied(s))
        <4>1. Copied(s) \in Context
          BY CopiesTyped
        <4>2. /\ Copied(s).hdr = Nothing /\ ~Copied(s).synced
              /\ \A h \in Header : Copied(s).pend[h] = 0
          BY DEF Copied, Fresh, Nothing
        <4> QED BY <4>1, <4>2 DEF Clean
      <3>2. Once(r.s) /\ Untouched(i + 1, Copied(s), r.s)
        BY <3>1 DEF OnceFrom
      <3>3. r.s \in Context
        BY <1>0, <3>1, FromTyped DEF Ending
      <3>4. t.s = CopyBack(s, r.s)
        BY <2>3 DEF Result
      <3> QED BY <1>4, <3>2, <3>3, <3>4, TimeoutOnce
    <2> QED BY <2>1, <2>2, <2>3
  <1>5. CASE chain[i] \notin Terminal \cup {"timeout"}
    <2>1. PICK o \in Down(chain[i], req, s) :
            \/ o.go /\ \E r \in From(chain, req, i + 1)[o.s] : t = Around(chain[i], req, r)
            \/ ~o.go /\ t = Result(o.s, o.err)
      BY <1>0, <1>5, FromMiddlewareOnly
    <2>2. o.s \in Context
      BY DownTyped DEF Outcome
    <2>3. /\ o.go => Clean(i + 1, o.s)
          /\ ~o.go => Once(o.s)
          /\ \A h \in Owned : ~Queues(chain[i], h) /\ s.pend[h] = 0 =>
               /\ o.go => o.s.pend[h] = 0
               /\ ~o.go => o.s.hdr[h] = 0
      BY DownOnce
    <2>4. CASE o.go
      <3>1. PICK r \in From(chain, req, i + 1)[o.s] : t = Around(chain[i], req, r)
        BY <2>1, <2>4
      <3>2. Once(r.s) /\ Untouched(i + 1, o.s, r.s)
        BY <2>2, <2>3, <2>4 DEF OnceFrom
      <3>3. r \in Ending
        BY <1>0, <2>2, FromTyped
      <3>4. Once(t.s) /\ \A h \in Owned : t.s.hdr[h] = r.s.hdr[h]
        BY <3>1, <3>2, <3>3, AroundOnce
      <3>5. Untouched(i, s, t.s)
        BY <1>0, <1>1, <2>3, <2>4, <3>2, <3>4 DEF Untouched
      <3> QED BY <3>4, <3>5
    <2>5. CASE ~o.go
      <3>1. t.s = o.s
        BY <2>1, <2>5 DEF Result
      <3> QED BY <1>0, <1>1, <2>3, <2>5, <3>1 DEF Untouched
    <2> QED BY <2>4, <2>5
  <1> QED BY <1>3, <1>4, <1>5

\* By induction from the end of the chain.
LEMMA RunOnce == ASSUME chain \in Seq(Kind) PROVE OnceFrom(1)
  <1> DEFINE T == {i \in 1 .. Len(chain) + 1 : OnceFrom(i)}
  <1>1. Len(chain) \in Nat /\ 1 \in 1 .. Len(chain) + 1
    OBVIOUS
  <1>2. Len(chain) + 1 \in T
    <2>1. \A t \in Context : From(chain, req, Len(chain) + 1)[t] = {}
      BY <1>1, FromTyped
    <2> QED BY <1>1, <2>1 DEF OnceFrom
  <1>3. \A i \in 1 .. Len(chain) : i + 1 \in T => i \in T
    BY ElementOnce
  <1> HIDE DEF T
  <1>4. 1 \in T
    BY <1>1, <1>2, <1>3, Backwards
  <1> QED BY <1>4 DEF T

LEMMA FreshClean ==
  ASSUME NEW p \in Path
  PROVE  Fresh(p) \in Context /\ Clean(1, Fresh(p)) /\ Once(Fresh(p))
  <1>1. Fresh(p) \in Context
    BY FreshTyped
  <1>2. /\ Fresh(p).hdr = Nothing /\ ~Fresh(p).synced
        /\ \A h \in Header : Fresh(p).pend[h] = 0
    BY DEF Fresh, Nothing
  <1>3. Clean(1, Fresh(p))
    BY <1>2 DEF Clean
  <1> HIDE DEF Clean
  <1> QED BY <1>1, <1>3, CleanFit, FitOnce

\* What is sent of a context with each header once has each header once.
LEMMA RespondOnce ==
  ASSUME NEW r, r.s \in Context, r.err \in Nat, Once(r.s)
  PROVE  \A h \in Header \ {"cookie"} : ~Doubled(h) => Respond(r).hdr[h] <= 1
  <1> DEFINE t == IF r.err = 0 THEN r.s ELSE ErrorResponse(r.s, r.err)
  <1>1. t \in Context /\ Keeps(r.s, t)
    <2>1. <<"error">> \in Seq(Content)
      BY ContentTyped DEF Content
    <2> QED BY <2>1, SendTyped, SendKeeps DEF ErrorResponse
  <1>2. Once(t)
    BY <1>1, FitKept
  <1>3. Respond(r).hdr = SyncHeaders(t).hdr
    BY DEF Respond, Answer
  <1> HIDE DEF t
  <1>4. \A h \in Header : t.hdr[h] \in Nat /\ t.pend[h] \in Nat
    BY <1>1 DEF Context
  <1>5. CASE t.init /\ ~t.synced
    BY <1>1, <1>2, <1>3, <1>4, <1>5, SyncEffect DEF Once
  <1>6. CASE ~(t.init /\ ~t.synced)
    BY <1>1, <1>2, <1>3, <1>4, <1>6, SyncEffect DEF Once
  <1> QED BY <1>5, <1>6

\* The results an answer stands for.
LEMMA AnswerResult ==
  ASSUME Inv, Course, phase = "answered"
  PROVE  /\ req \in Request /\ req.path \in Path /\ chain \in Seq(Kind)
         /\ \E r \in Results : ~r.panic /\ answer = Respond(r)
         /\ req.route # "slash" => Results = From(chain, req, 1)[Fresh(req.path)]
         /\ req.route = "slash" => Results = {Result(SlashResponse(req, Fresh(req.path)), 0)}
  <1>1. req \in Request /\ chain \in Seq(Kind) /\ req.path \in Path
    BY RequestAssumption DEF Inv, Typed
  <1>2. \E r \in Results : ~r.panic /\ answer = Respond(r)
    BY DEF Course, Whence, Answers
  <1>3. Len(chain) + 1 - 1 = Len(chain)
    BY <1>1
  <1> QED BY <1>1, <1>2, <1>3 DEF Results, Whole, From

\* Whoever copies the writer's headers, each header is in the answer at most once,
\* unless an element above leaves it in the writer and below one stands that
\* Sets it in the response, or one that leaves it in the writer of a copy.
THEOREM HeadersOnce == Spec => []HeaderOnce
  <1>1. Inv /\ Course => HeaderOnce
    <2> SUFFICES ASSUME Inv, Course, phase = "answered"
                 PROVE  \A h \in Header \ {"cookie"} : ~Doubled(h) => answer.hdr[h] <= 1
      <3>1. Inv => \A h \in Header \ {"cookie"} : answer.hdr[h] \in Nat
        BY DEF Inv, Typed, Response
      <3> QED BY <3>1 DEF HeaderOnce
    <2>1. PICK r \in Results : answer = Respond(r)
      BY AnswerResult
    <2>2. Fresh(req.path) \in Context /\ Clean(1, Fresh(req.path)) /\ Once(Fresh(req.path))
      BY AnswerResult, FreshClean
    <2>3. CASE req.route # "slash"
      <3>1. r \in From(chain, req, 1)[Fresh(req.path)] /\ chain \in Seq(Kind)
        BY <2>3, AnswerResult
      <3>2. Once(r.s)
        BY <2>2, <3>1, RunOnce DEF OnceFrom
      <3>3. r \in Ending
        <4>1. Len(chain) \in Nat /\ 1 \in 1 .. Len(chain) + 1
          BY <3>1
        <4> QED BY <2>2, <3>1, <4>1, FromTyped
      <3> QED BY <2>1, <3>2, <3>3, RespondOnce DEF Ending
    <2>4. CASE req.route = "slash"
      <3> DEFINE s == Fresh(req.path)
                 u == [s EXCEPT !.hdr["location"] = 1]
      <3>1. r = Result(SlashResponse(req, s), 0)
        BY <2>4, AnswerResult
      <3>2. /\ u \in Context /\ u.hdr["location"] = 1
            /\ \A h \in Header \ {"location"} : u.hdr[h] = 0
            /\ \A h \in Header : u.pend[h] = 0
        <4>1. s.hdr = Nothing /\ s.pend = Nothing /\ "location" \in Header
          BY DEF Fresh, Header
        <4> HIDE DEF s
        <4>2. Nothing \in [Header -> Nat] /\ \A h \in Header : Nothing[h] = 0
          BY DEF Nothing
        <4> DEFINE located == [Nothing EXCEPT !["location"] = 1]
        <4>3. /\ located \in [Header -> Nat] /\ located["location"] = 1
              /\ \A h \in Header \ {"location"} : located[h] = 0
          BY <4>1, <4>2
        <4>4. u = [s EXCEPT !.hdr = located]
          BY <2>2, <4>1 DEF s, Context
        <4> HIDE DEF located
        <4>5. s \in Context /\ u \in Context
          BY <2>2, <4>3, <4>4, FieldTyped DEF s
        <4>6. u.hdr = located /\ u.pend = s.pend
          BY <4>4, <4>5 DEF Context
        <4> QED BY <4>1, <4>2, <4>3, <4>5, <4>6
      <3>3. Once(u)
        <4> HIDE DEF u
        <4>1. {"etag", "rtime", "encoding"} \subseteq Header \ {"location"}
          BY DEF Header
        <4> QED BY <3>2, <4>1 DEF Once
      <3>4. \E code \in Nat : SlashResponse(req, s) = SendString(u, code, <<>>)
        BY DEF SlashResponse
      <3> HIDE DEF u
      <3>5. SlashResponse(req, s) \in Context /\ Keeps(u, SlashResponse(req, s))
        BY <3>2, <3>4, SendTyped, SendKeeps, ContentTyped
      <3>6. r.s \in Context /\ r.err = 0 /\ Once(r.s)
        BY <3>1, <3>3, <3>5, FitKept DEF Result
      <3> QED BY <2>1, <3>6, RespondOnce
    <2> QED BY <2>3, <2>4
  <1> QED BY <1>1, OnlyCourse, PTL

-----------------------------------------------------------------------------
(* Headers of early elements arrive                                        *)

\* Header h waits in the writer's map, and is sent when it is copied.
Holds(s, h) == s.init /\ ~s.synced /\ s.pend[h] >= 1

\* It waits or is in the response.
Carries(s, h) == s.hdr[h] >= 1 \/ Holds(s, h)

LEMMA HoldsKept ==
  ASSUME NEW s, NEW t, Keeps(s, t), NEW h
  PROVE  (Holds(s, h) => Holds(t, h)) /\ (Carries(s, h) => Carries(t, h))
  BY DEF Keeps, Holds, Carries

\* Another header in the map does not disturb it, and a copied one is sent.
LEMMA HoldsSet ==
  ASSUME NEW s \in Context, NEW h \in Header, Holds(s, h)
  PROVE  /\ \A g \in Header : Holds(SetHeader(s, g), h)
         /\ \A g \in Header \ {h} : Holds(AddHeader(s, g), h)
         /\ Carries(SyncHeaders(s), h)
  <1>1. ASSUME NEW g \in Header PROVE Holds(SetHeader(s, g), h)
    <2> DEFINE t == SetHeader(s, g)
    <2>1. /\ t.synced = s.synced /\ t.init = TRUE /\ t.pend[g] = 1
          /\ \A k \in Header \ {g} : t.pend[k] = s.pend[k]
      BY SetEffect
    <2> HIDE DEF t
    <2>2. Holds(t, h)
      BY <2>1 DEF Holds
    <2> QED BY <2>2 DEF t
  <1>2. ASSUME NEW g \in Header \ {h} PROVE Holds(AddHeader(s, g), h)
    <2> DEFINE t == AddHeader(s, g)
    <2>1. /\ t.synced = s.synced /\ t.init = TRUE
          /\ \A k \in Header \ {g} : t.pend[k] = s.pend[k]
      BY SetEffect
    <2> HIDE DEF t
    <2>2. Holds(t, h)
      BY <2>1 DEF Holds
    <2> QED BY <2>2 DEF t
  <1>3. Carries(SyncHeaders(s), h)
    <2>1. SyncHeaders(s).hdr[h] = s.hdr[h] + s.pend[h]
      BY SyncEffect DEF Holds
    <2>2. s.hdr[h] \in Nat /\ s.pend[h] \in Nat /\ s.pend[h] >= 1
      BY DEF Context, Holds
    <2> QED BY <2>1, <2>2 DEF Carries
  <1> QED BY <1>1, <1>2, <1>3

LEMMA DownHolds ==
  ASSUME NEW k, NEW s \in Context, NEW h \in Owned, Holds(s, h), NEW o \in Down(k, req, s)
  PROVE  /\ o.go => Holds(o.s, h)
         /\ ~o.go => Carries(o.s, h)
  <1>1. /\ h \in Header /\ "cookie" \in Header \ {h} /\ {"location", "icon"} \subseteq Header
        /\ \A j \in DOMAIN HeaderOf : HeaderOf[j] \in Header
    BY OwnersKnown DEF Owned, Header
  <1>2. \A t : Holds(t, h) => Carries(t, h)
    BY DEF Carries
  <1>3. /\ \A g \in Header : Holds(SetHeader(s, g), h)
        /\ Holds(AddHeader(s, "cookie"), h) /\ Carries(SyncHeaders(s), h)
    BY <1>1, HoldsSet
  <1>4. Holds([s EXCEPT !.hdr = Nothing], h)
    BY DEF Holds, Context
  <1> QED BY <1>1, <1>2, <1>3, <1>4, DownHeaders, HoldsKept

LEMMA AroundCarries ==
  ASSUME NEW k, NEW r \in Ending, NEW h \in Owned, Carries(r.s, h)
  PROVE  Carries(Around(k, req, r).s, h)
  <1> DEFINE s == r.s
             t == Up(k, req, r.s, r.err).s
             u == [s EXCEPT !.hdr = [s.hdr EXCEPT !["encoding"] = 1]]
  <1>1. s \in Context /\ h \in Header /\ {"etag", "rtime"} \subseteq Header /\ h # "encoding"
    BY DEF Ending, Owned, Header
  <1>2. Around(k, req, r).s = s \/ Around(k, req, r).s = t
    BY DEF Around, Result
  <1>3. \/ Keeps(s, t) \/ \E g \in {"etag", "rtime"} : Keeps(SetHeader(s, g), t)
        \/ Keeps(u, t)
    BY <1>1, UpHeaders
  <1>4. Carries(u, h)
    <2>1. u.hdr[h] = s.hdr[h] /\ u.pend = s.pend /\ u.init = s.init /\ u.synced = s.synced
      BY <1>1 DEF Context
    <2> HIDE DEF u
    <2> QED BY <2>1 DEF Carries, Holds
  <1>5. ASSUME NEW g \in {"etag", "rtime"} PROVE Carries(SetHeader(s, g), h)
    <2>1. SetHeader(s, g).hdr = s.hdr
      BY <1>1, SetEffect
    <2>2. Holds(s, h) => Holds(SetHeader(s, g), h)
      BY <1>1, HoldsSet
    <2> QED BY <2>1, <2>2 DEF Carries
  <1> HIDE DEF s, t, u
  <1>6. Carries(t, h)
    BY <1>3, <1>4, <1>5, HoldsKept DEF s
  <1> QED BY <1>2, <1>6 DEF s

LEMMA HandlerCarries ==
  ASSUME NEW k \in Terminal, NEW s \in Context, NEW h \in Owned, Holds(s, h),
         NEW r \in RunHandler(k, s)
  PROVE  Carries(r.s, h)
  <1> DEFINE u(g) == [s EXCEPT !.hdr = [s.hdr EXCEPT ![g] = 1]]
  <1>1. h \in Header /\ {"user", "allow"} \subseteq Header
    BY DEF Owned, Header
  <1>2. \A t : Holds(t, h) => Carries(t, h)
    BY DEF Carries
  <1>3. \A g \in Header : Holds(u(g), h)
    BY DEF Holds, Context
  <1>4. \A g \in Header : Holds(SetHeader(s, g), h)
    BY <1>1, HoldsSet
  <1>5. Carries(SyncHeaders(s), h) /\ Carries(SyncHeaders(SetHeader(s, "user")), h)
    <2>1. SetHeader(s, "user") \in Context
      BY <1>1, SetTyped
    <2> QED BY <1>1, <1>4, <2>1, HoldsSet
  <1> HIDE DEF u
  <1>6. CASE k \in Returning
    <2> DEFINE t == Returns(k, s).s
    <2>1. r.s = t
      <3>1. RunHandler(k, s) = {Result(t, Returns(k, s).err)}
        BY <1>6, HandlerResults
      <3> HIDE DEF t
      <3> QED BY <3>1 DEF Result
    <2>2. \/ Keeps(s, t) \/ (\E g \in Header : Keeps(u(g), t)) \/ Keeps(SetHeader(s, "allow"), t)
          \/ Keeps(SyncHeaders(s), t) \/ Keeps(SyncHeaders(SetHeader(s, "user")), t)
      BY <1>6, ReturnsHeaders DEF u
    <2> HIDE DEF t
    <2> QED BY <1>1, <1>2, <1>3, <1>4, <1>5, <2>1, <2>2, HoldsKept
  <1>7. CASE k \in Panicking
    <2>1. r.s = s
      BY <1>7, HandlerResults DEF Panics
    <2> QED BY <1>2, <2>1
  <1>8. CASE k = "stream"
    <2>1. r.s = Streamed(s)
      BY <1>8, HandlerResults DEF Result
    <2>2. Keeps(u("user"), Streamed(s))
      BY DEF Keeps, Streamed, Context, u
    <2> QED BY <1>1, <1>2, <1>3, <2>1, <2>2, HoldsKept
  <1>9. k # "hang"
    BY HandlerResults
  <1> QED BY <1>6, <1>7, <1>8, <1>9 DEF Returning

\* Whatever the elements from i on do with a context that holds a header, the
\* result carries it.
Delivers(i, h) ==
  \A s \in Context : Holds(s, h) => \A r \in From(chain, req, i)[s] : Carries(r.s, h)

\* A Timeout's error and what it copies back included.
LEMMA ElementCarries ==
  ASSUME chain \in Seq(Kind), NEW i \in 1 .. Len(chain), NEW h \in Owned, Delivers(i + 1, h)
  PROVE  Delivers(i, h)
  <1> SUFFICES ASSUME NEW s \in Context, Holds(s, h), NEW t \in From(chain, req, i)[s]
               PROVE  Carries(t.s, h)
    BY DEF Delivers
  <1>1. Len(chain) \in Nat
    OBVIOUS
  <1>2. CASE chain[i] \in Terminal
    BY <1>1, <1>2, FromHandler, HandlerCarries
  <1>3. CASE chain[i] = "timeout"
    <2>0. PICK code : code = 408
      OBVIOUS
    <2>1. \/ t = Result(s, code)
          \/ \E r \in From(chain, req, i + 1)[Copied(s)] : t = Result(CopyBack(s, r.s), r.err)
      BY <1>1, <1>3, <2>0, FromTimeout
    <2>2. t.s = s \/ \E c : t.s = CopyBack(s, c)
      BY <2>1 DEF Result
    <2>3. \A c : Holds(CopyBack(s, c), h)
      BY DEF CopyBack, Holds, Context
    <2> QED BY <2>2, <2>3 DEF Carries
  <1>4. CASE chain[i] \notin Terminal \cup {"timeout"}
    <2>1. PICK o \in Down(chain[i], req, s) :
            \/ o.go /\ \E r \in From(chain, req, i + 1)[o.s] : t = Around(chain[i], req, r)
            \/ ~o.go /\ t = Result(o.s, o.err)
      BY <1>1, <1>4, FromMiddlewareOnly
    <2>2. o.s \in Context
      BY DownTyped DEF Outcome
    <2>3. (o.go => Holds(o.s, h)) /\ (~o.go => Carries(o.s, h))
      BY DownHolds
    <2>4. ASSUME o.go, NEW r \in From(chain, req, i + 1)[o.s], t = Around(chain[i], req, r)
          PROVE  Carries(t.s, h)
      <3>1. Carries(r.s, h)
        BY <2>2, <2>3, <2>4 DEF Delivers
      <3>2. r \in Ending
        BY <1>1, <2>2, FromTyped
      <3> QED BY <2>4, <3>1, <3>2, AroundCarries
    <2>5. CASE ~o.go /\ t = Result(o.s, o.err)
      BY <2>3, <2>5 DEF Result
    <2> QED BY <2>1, <2>4, <2>5
  <1> QED BY <1>2, <1>3, <1>4

LEMMA RunCarries ==
  ASSUME chain \in Seq(Kind), NEW h \in Owned, NEW i \in 1 .. Len(chain) + 1
  PROVE  Delivers(i, h)
  <1> DEFINE T == {j \in 1 .. Len(chain) + 1 : Delivers(j, h)}
  <1>1. Len(chain) \in Nat /\ 1 \in 1 .. Len(chain) + 1
    OBVIOUS
  <1>2. Len(chain) + 1 \in T
    <2>1. \A t \in Context : From(chain, req, Len(chain) + 1)[t] = {}
      BY <1>1, FromTyped
    <2> QED BY <1>1, <2>1 DEF Delivers
  <1>3. \A j \in 1 .. Len(chain) : j + 1 \in T => j \in T
    BY ElementCarries
  <1> HIDE DEF T
  <1>4. i \in T
    BY <1>1, <1>2, <1>3, Backwards
  <1> QED BY <1>4 DEF T

\* An element that always calls Next goes on, and copies nothing.
LEMMA DownGoesOn ==
  ASSUME NEW k, Passes(k), NEW s \in Context, ~s.synced, NEW o \in Down(k, req, s)
  PROVE  o.go /\ ~o.s.synced
  <1>1. {"rid", "security", "cors"} \subseteq Header
    BY DEF Header
  <1>2. \A h \in Header : ~SetHeader(s, h).synced
    BY SetEffect
  <1>3. \A t : Go(t).go /\ Go(t).s = t
    BY DEF Go
  <1>4. o = Go(s) \/ \E h \in {"rid", "security", "cors"} : o = Go(SetHeader(s, h))
    <2>1. CASE k = "requestid"
      BY <2>1 DEF Down, RequestID
    <2>2. CASE k = "helmet"
      BY <2>2 DEF Down, Helmet
    <2>3. CASE k = "cors"
      <3>1. o \in CORS(req, s) /\ req.method # "OPTIONS"
        BY <2>3 DEF Down, Passes, Passing
      <3> QED BY <3>1 DEF CORS
    <2>4. CASE k \in Passing \ {"requestid", "helmet", "cors"}
      <3>1. k \notin {"requestid", "helmet", "cors", "csrf", "earlydata", "redirect",
                      "rewrite", "favicon", "static", "wrapped"}
        BY <2>4 DEF Passing
      <3> QED BY <3>1 DEF Down
    <2> QED BY <2>1, <2>2, <2>3, <2>4 DEF Passes
  <1> QED BY <1>1, <1>2, <1>3, <1>4

\* An element that owes its header sets it.
LEMMA DownSets ==
  ASSUME NEW k, Owed(k), NEW s \in Context, ~s.synced, NEW o \in Down(k, req, s)
  PROVE  Holds(o.s, HeaderOf[k])
  <1>1. k \in DOMAIN HeaderOf /\ HeaderOf[k] \in Header
    BY OwnersKnown DEF Owed, Owned, Header
  <1>2. Holds(SetHeader(s, HeaderOf[k]), HeaderOf[k]) /\ SetHeader(s, HeaderOf[k]) \in Context
    <2>1. /\ SetHeader(s, HeaderOf[k]).synced = s.synced
          /\ SetHeader(s, HeaderOf[k]).init = TRUE
          /\ SetHeader(s, HeaderOf[k]).pend[HeaderOf[k]] = 1
      BY <1>1, SetEffect
    <2> QED BY <1>1, <2>1, SetTyped DEF Holds
  <1>3. \A t : Go(t).s = t /\ \A n : Stop(t, n).s = t
    BY DEF Go, Stop
  <1>4. CASE k = "requestid"
    <2>1. o = Go(SetHeader(s, HeaderOf[k]))
      BY <1>4 DEF Down, RequestID, HeaderOf
    <2> QED BY <1>2, <1>3, <2>1
  <1>5. CASE k = "helmet"
    <2>1. o = Go(SetHeader(s, HeaderOf[k]))
      BY <1>5 DEF Down, Helmet, HeaderOf
    <2> QED BY <1>2, <1>3, <2>1
  <1>6. CASE k = "cors"
    <2>1. o \in CORS(req, s) /\ AllowedOrigin(req) /\ HeaderOf[k] = "cors"
      BY <1>6 DEF Down, Owed, HeaderOf
    <2>2. \/ o = Go(SetHeader(s, HeaderOf[k]))
          \/ o = Stop(SendString(SetHeader(s, HeaderOf[k]), 204, <<>>), 0)
      BY <2>1 DEF CORS
    <2>3. \A n, b : Holds(SendString(SetHeader(s, HeaderOf[k]), n, b), HeaderOf[k])
      BY <1>2, SendKeeps, HoldsKept
    <2> QED BY <1>2, <1>3, <2>2, <2>3
  <1> QED BY <1>1, <1>4, <1>5, <1>6, OwnersKnown

\* So from the elements before it on, every result carries it.
LEMMA PrefixCarries ==
  ASSUME chain \in Seq(Kind), NEW i \in 1 .. Len(chain), Owed(chain[i]),
         \A j \in 1 .. i - 1 : Passes(chain[j]),
         NEW s \in Context, ~s.synced, NEW r \in From(chain, req, 1)[s]
  PROVE  Carries(r.s, HeaderOf[chain[i]])
  <1> DEFINE h == HeaderOf[chain[i]]
             Brings(j) == \A t \in Context : ~t.synced =>
                           \A e \in From(chain, req, j)[t] : Carries(e.s, h)
             T == {j \in 1 .. Len(chain) : Brings(j)}
  <1>1. /\ Len(chain) \in Nat /\ i - 1 \in Nat /\ (i - 1) + 1 = i
        /\ h \in Owned /\ chain[i] \in DOMAIN HeaderOf
        /\ \A k : Passes(k) \/ k \in DOMAIN HeaderOf => k \notin Terminal \cup {"timeout"}
    BY OwnersKnown DEF Owed, Passes, Passing, Terminal, Handlers, HeaderOf
  <1>2. ASSUME NEW j \in 1 .. Len(chain), chain[j] \notin Terminal \cup {"timeout"},
               NEW t \in Context, NEW e \in From(chain, req, j)[t],
               \A o \in Down(chain[j], req, t) :
                 \/ Holds(o.s, h)
                 \/ o.go /\ \A b \in From(chain, req, j + 1)[o.s] : Carries(b.s, h)
        PROVE  Carries(e.s, h)
    <2>1. PICK o \in Down(chain[j], req, t) :
            \/ o.go /\ \E b \in From(chain, req, j + 1)[o.s] : e = Around(chain[j], req, b)
            \/ ~o.go /\ e = Result(o.s, o.err)
      BY <1>1, <1>2, FromMiddlewareOnly
    <2>2. o.s \in Context /\ j + 1 \in 1 .. Len(chain) + 1
      BY <1>1, DownTyped DEF Outcome
    <2>3. Holds(o.s, h) \/ (o.go /\ \A b \in From(chain, req, j + 1)[o.s] : Carries(b.s, h))
      BY <1>2
    <2> HIDE DEF h
    <2>4. \A b \in From(chain, req, j + 1)[o.s] : Carries(b.s, h)
      <3>1. Delivers(j + 1, h)
        BY <1>1, <2>2, RunCarries
      <3> QED BY <2>2, <2>3, <3>1 DEF Delivers
    <2>5. CASE o.go
      <3>1. PICK b \in From(chain, req, j + 1)[o.s] : e = Around(chain[j], req, b)
        BY <2>1, <2>5
      <3>2. b \in Ending
        BY <1>1, <2>2, FromTyped
      <3> QED BY <1>1, <2>4, <3>1, <3>2, AroundCarries
    <2>6. CASE ~o.go
      BY <2>1, <2>3, <2>6 DEF Result, Carries
    <2> QED BY <2>5, <2>6
  <1>3. i \in T
    <2>1. Brings(i)
      BY <1>1, <1>2, DownSets
    <2> QED BY <2>1
  <1>4. ASSUME NEW j \in 1 .. i - 1, j + 1 \in T PROVE j \in T
    <2>1. j \in 1 .. Len(chain) /\ Passes(chain[j])
      OBVIOUS
    <2>2. \A t \in Context : ~t.synced =>
            \A o \in Down(chain[j], req, t) : o.s \in Context /\ o.go /\ ~o.s.synced
      BY <2>1, DownGoesOn, DownTyped DEF Outcome
    <2>3. Brings(j)
      BY <1>1, <1>2, <1>4, <2>1, <2>2
    <2> QED BY <2>1, <2>3
  <1>5. 1 \in T
    <2> HIDE DEF T
    <2>1. 1 \in 1 .. (i - 1) + 1 /\ (i - 1) + 1 \in T
      BY <1>1, <1>3
    <2> QED BY <1>1, <1>4, <2>1, Backwards
  <1> QED BY <1>5

LEMMA RespondCarries ==
  ASSUME NEW r, r.s \in Context, r.err \in Nat, NEW h \in Owned, Carries(r.s, h)
  PROVE  Respond(r).hdr[h] >= 1
  <1> DEFINE t == IF r.err = 0 THEN r.s ELSE ErrorResponse(r.s, r.err)
  <1>1. t \in Context /\ Keeps(r.s, t)
    <2>1. <<"error">> \in Seq(Content)
      BY ContentTyped DEF Content
    <2> QED BY <2>1, SendTyped, SendKeeps DEF ErrorResponse
  <1>2. Carries(t, h)
    BY <1>1, HoldsKept
  <1>3. Respond(r).hdr = SyncHeaders(t).hdr
    BY DEF Respond, Answer
  <1> HIDE DEF t
  <1>4. h \in Header /\ t.hdr[h] \in Nat /\ t.pend[h] \in Nat
    BY <1>1 DEF Context, Owned, Header
  <1>5. CASE t.init /\ ~t.synced
    <2>1. SyncHeaders(t).hdr[h] = t.hdr[h] + t.pend[h]
      BY <1>1, <1>4, <1>5, SyncEffect
    <2> QED BY <1>2, <1>3, <1>4, <2>1 DEF Carries, Holds
  <1>6. CASE ~(t.init /\ ~t.synced)
    <2>1. SyncHeaders(t) = t
      BY <1>1, <1>6, SyncEffect
    <2> QED BY <1>2, <1>3, <1>6, <2>1 DEF Carries, Holds
  <1> QED BY <1>5, <1>6

\* The header of an element reached outside of any Timeout is in the answer,
\* whatever the elements after it do: fail, panic, time out or write first.
THEOREM EarlyHeadersArrive == Spec => []EarlyHeadersDelivered
  <1>1. Inv /\ Course => EarlyHeadersDelivered
    <2> SUFFICES ASSUME Inv, Course, phase = "answered", req.route # "slash",
                        NEW i \in 1 .. Len(chain), Owed(chain[i]),
                        \A j \in 1 .. i - 1 : Passes(chain[j])
                 PROVE  answer.hdr[HeaderOf[chain[i]]] >= 1
      BY DEF EarlyHeadersDelivered
    <2>1. PICK r \in Results : answer = Respond(r)
      BY AnswerResult
    <2>2. /\ r \in From(chain, req, 1)[Fresh(req.path)] /\ chain \in Seq(Kind)
          /\ Fresh(req.path) \in Context /\ ~Fresh(req.path).synced
      BY AnswerResult, FreshClean DEF Fresh
    <2>3. Carries(r.s, HeaderOf[chain[i]])
      BY <2>2, PrefixCarries
    <2>4. r \in Ending
      <3>1. Len(chain) \in Nat /\ 1 \in 1 .. Len(chain) + 1
        BY <2>2
      <3> QED BY <2>2, <3>1, FromTyped
    <2>5. HeaderOf[chain[i]] \in Owned
      BY OwnersKnown DEF Owed
    <2> QED BY <2>1, <2>3, <2>4, <2>5, RespondCarries DEF Ending
  <1> QED BY <1>1, OnlyCourse, PTL
=============================================================================
