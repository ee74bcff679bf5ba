------------------------------ MODULE Dispatch -------------------------------
(***************************************************************************)
(* One request in handleFastHTTP (mux.go): the choice between the route's  *)
(* chain, a redirect, 405 and 404; the chain, element by element, going    *)
(* down through Next and back up; the error handler and the final copy of  *)
(* the writer's headers.  A Timeout (middleware/timeout.go) starts a       *)
(* goroutine that runs the rest of the chain on a copy of the context while*)
(* its own waits for the result or the timer; goroutine 0 serves the       *)
(* request, goroutine d + 1 is the one the Timeout in goroutine d starts,  *)
(* and goroutine d has context d.                                          *)
(***************************************************************************)
EXTENDS ChainRun

CONSTANTS
  Request,          \* the requests considered
  Chain,            \* middleware chains: [global, inline], sequences of kinds
  MethodNotAllowed, \* Config.MethodNotAllowed
  MaxTimeouts       \* bound on the Timeouts in a chain

ASSUME MaxTimeoutsAssumption == MaxTimeouts \in Nat

ASSUME RequestAssumption == \A q \in Request : q.path \in Path /\ q.handler \in Handlers

ASSUME ChainAssumption ==
  \A c \in Chain : c.global \in Seq(Kind) /\ c.inline \in Seq(Kind)

Depth == 0 .. MaxTimeouts

VARIABLES
  req,     \* the request: what it asks for and how it is routed
  chain,   \* c.handlers, once the route is known
  phase,   \* where goroutine 0 is: "read", "run", "answered", "crashed"
  ctx,     \* each goroutine's context
  pc,      \* each goroutine's place in the chain
  result,  \* what the goroutine of each depth has sent on its channel
  flushed, \* how often the streaming handler has flushed
  answer   \* the response fasthttp sends

vars == <<req, chain, phase, ctx, pc, result, flushed, answer>>

\* down: about to run element at; up: element at sees err; panic: unwinding
\* through element at; wait: in Timeout's select.  Elements up to base belong
\* to the goroutine's parent.
Idle == [mode |-> "idle", at |-> 0, base |-> 0, err |-> 0]

NoResult == 999

Init ==
  /\ req \in Request
  /\ \E c \in Chain : chain = IF req.route = "found" THEN c.global \o c.inline ELSE c.global
  /\ phase = "read"
  /\ ctx = [d \in Depth |-> Fresh(req.path)]
  /\ pc = [d \in Depth |-> Idle]
  /\ result = [d \in Depth |-> NoResult]
  /\ flushed = 0
  /\ answer = Answer(Fresh(req.path))

-----------------------------------------------------------------------------
(* Routing                                                                 *)

\* The end of the chain: the route's handler, or the error for a path that
\* only other methods have, or none.
Last ==
  CASE req.route = "found" -> req.handler
    [] req.route = "other" /\ MethodNotAllowed -> "notallowed"
    [] OTHER -> "notfound"

\* The path differs from a route's by a final slash: redirected at once, no
\* middleware runs.
RedirectSlash ==
  /\ phase = "read" /\ req.route = "slash"
  /\ phase' = "answered"
  /\ answer' = Answer(SlashResponse(req, ctx[0]))
  /\ UNCHANGED <<req, chain, ctx, pc, result, flushed>>

\* acquireContext, setContextSettings, the handlers, Next.
Begin ==
  /\ phase = "read" /\ req.route # "slash"
  /\ chain' = Append(chain, Last)
  /\ phase' = "run"
  /\ pc' = [pc EXCEPT ![0] = [@ EXCEPT !.mode = "down", !.at = 1]]
  /\ UNCHANGED <<req, ctx, result, flushed, answer>>

-----------------------------------------------------------------------------
(* The chain                                                               *)

Move(d, mode, at, err) ==
  pc' = [pc EXCEPT ![d] = [@ EXCEPT !.mode = mode, !.at = at, !.err = err]]

At(d, mode) == pc[d].mode = mode
Element(d)  == chain[pc[d].at]

\* A middleware runs up to Next, or returns without it.
Descend(d) ==
  /\ At(d, "down") /\ Element(d) \notin Terminal \cup {"timeout"}
  /\ \E o \in Down(Element(d), req, ctx[d]) :
       /\ ctx' = [ctx EXCEPT ![d] = o.s]
       /\ IF o.go THEN Move(d, "down", pc[d].at + 1, 0)
                  ELSE Move(d, "up", pc[d].at - 1, o.err)
  /\ UNCHANGED <<req, chain, phase, result, flushed, answer>>

\* A handler that returns.
Handle(d) ==
  /\ At(d, "down") /\ Element(d) \in Returning
  /\ LET o == Returns(Element(d), ctx[d])
     IN  ctx' = [ctx EXCEPT ![d] = o.s] /\ Move(d, "up", pc[d].at - 1, o.err)
  /\ UNCHANGED <<req, chain, phase, result, flushed, answer>>

\* A handler that panics, and one that blocks for ever.
HandlePanic(d) ==
  /\ At(d, "down") /\ Element(d) \in Panicking
  /\ Move(d, "panic", pc[d].at - 1, 500)
  /\ UNCHANGED <<req, chain, phase, ctx, result, flushed, answer>>

Hang(d) ==
  /\ At(d, "down") /\ Element(d) = "hang"
  /\ Move(d, "stuck", pc[d].at, 0)
  /\ UNCHANGED <<req, chain, phase, ctx, result, flushed, answer>>

\* SetBodyStreamWriter: fasthttp runs the writer function in a goroutine of its
\* own, and the handler waits for the function to return.
StreamStart(d) ==
  /\ At(d, "down") /\ Element(d) = "stream"
  /\ Move(d, "stream", pc[d].at, 0)
  /\ UNCHANGED <<req, chain, phase, ctx, result, flushed, answer>>

\* Flush blocks when the pipe is full; the response, and with it the pipe, is
\* read after the dispatch has returned.
Flush(d) ==
  /\ At(d, "stream") /\ flushed < Flushes /\ flushed < PipeCap
  /\ flushed' = flushed + 1
  /\ UNCHANGED <<req, chain, phase, ctx, pc, result, answer>>

StreamEnd(d) ==
  /\ At(d, "stream") /\ flushed = Flushes
  /\ ctx' = [ctx EXCEPT ![d] = Streamed(@)]
  /\ Move(d, "up", pc[d].at - 1, 0)
  /\ UNCHANGED <<req, chain, phase, result, flushed, answer>>

\* The writer function returns an error, which SendStream hands on.
StreamFail(d) ==
  /\ At(d, "stream")
  /\ ctx' = [ctx EXCEPT ![d] = Streamed(@)]
  /\ Move(d, "up", pc[d].at - 1, 500)
  /\ UNCHANGED <<req, chain, phase, result, flushed, answer>>

\* Or panics: in fasthttp's goroutine, where no Recover can see it.
StreamPanic(d) ==
  /\ At(d, "stream")
  /\ phase' = "crashed"
  /\ UNCHANGED <<req, chain, ctx, pc, result, flushed, answer>>

\* Next has returned: the element's second half.
Ascend(d) ==
  /\ At(d, "up") /\ pc[d].at > pc[d].base
  /\ LET o == Up(Element(d), req, ctx[d], pc[d].err)
     IN  ctx' = [ctx EXCEPT ![d] = o.s] /\ Move(d, "up", pc[d].at - 1, o.err)
  /\ UNCHANGED <<req, chain, phase, result, flushed, answer>>

\* Variant of Unwind: Recover's result is lost.
UnwindNil(d) ==
  /\ At(d, "panic") /\ pc[d].at > pc[d].base
  /\ IF Element(d) = "recover" THEN Move(d, "up", pc[d].at - 1, 0)
                               ELSE Move(d, "panic", pc[d].at - 1, 500)
  /\ UNCHANGED <<req, chain, phase, ctx, result, flushed, answer>>

\* Recover's deferred function turns a panic into an error; others unwind.
Unwind(d) ==
  /\ At(d, "panic") /\ pc[d].at > pc[d].base
  /\ Move(d, IF Element(d) = "recover" THEN "up" ELSE "panic", pc[d].at - 1, 500)
  /\ UNCHANGED <<req, chain, phase, ctx, result, flushed, answer>>

-----------------------------------------------------------------------------
(* Timeout                                                                 *)

\* c.Copy(), and a goroutine that continues the chain on the copy.
StartTimeout(d) ==
  /\ At(d, "down") /\ Element(d) = "timeout" /\ d < MaxTimeouts
  /\ ctx' = [ctx EXCEPT ![d + 1] = Copied(ctx[d])]
  /\ pc' = [pc EXCEPT ![d] = [@ EXCEPT !.mode = "wait"],
                      ![d + 1] = [mode |-> "down", at |-> pc[d].at + 1,
                                  base |-> pc[d].at, err |-> 0]]
  /\ UNCHANGED <<req, chain, phase, result, flushed, answer>>

\* Variant of FinishLate: the channel has no buffer.
FinishLateUnbuffered(d) ==
  /\ d > 0 /\ pc[d].mode \in {"up", "panic"} /\ pc[d].at = pc[d].base
  /\ At(d - 1, "wait")
  /\ result' = [result EXCEPT ![d] = pc[d].err]
  /\ Move(d, "done", pc[d].at, pc[d].err)
  /\ UNCHANGED <<req, chain, phase, ctx, flushed, answer>>

\* Variant of FinishLate: the result is sent as soon as the handler has returned.
FinishLateOnReturn(d) ==
  /\ d > 0 /\ At(d, "up") /\ result[d] = NoResult
  /\ result' = [result EXCEPT ![d] = pc[d].err]
  /\ UNCHANGED <<req, chain, phase, ctx, pc, flushed, answer>>

\* The goroutine sends its error, or that of its recover, on the buffered
\* channel, whether somebody still waits for it or not.
FinishLate(d) ==
  /\ d > 0 /\ pc[d].mode \in {"up", "panic"} /\ pc[d].at = pc[d].base
  /\ result' = [result EXCEPT ![d] = pc[d].err]
  /\ Move(d, "done", pc[d].at, pc[d].err)
  /\ UNCHANGED <<req, chain, phase, ctx, flushed, answer>>

\* The select takes the result: the copy's response replaces the request's.
Receive(d) ==
  /\ At(d, "wait") /\ result[d + 1] # NoResult
  /\ ctx' = [ctx EXCEPT ![d] = CopyBack(@, ctx[d + 1])]
  /\ Move(d, "up", pc[d].at - 1, result[d + 1])
  /\ UNCHANGED <<req, chain, phase, result, flushed, answer>>

\* Variant of Expire: the response so far is copied before the timeout's error.
ExpireCopied(d) ==
  /\ At(d, "wait")
  /\ ctx' = [ctx EXCEPT ![d] = CopyBack(@, ctx[d + 1])]
  /\ Move(d, "up", pc[d].at - 1, 408)
  /\ UNCHANGED <<req, chain, phase, result, flushed, answer>>

\* Variant of Expire: the timer is looked at only once the result is there.
ExpireWithResult(d) ==
  /\ At(d, "wait") /\ result[d + 1] # NoResult
  /\ Move(d, "up", pc[d].at - 1, 408)
  /\ UNCHANGED <<req, chain, phase, ctx, result, flushed, answer>>

\* Or the timer has fired, perhaps although the result is there.
Expire(d) ==
  /\ At(d, "wait")
  /\ Move(d, "up", pc[d].at - 1, 408)
  /\ UNCHANGED <<req, chain, phase, ctx, result, flushed, answer>>

-----------------------------------------------------------------------------
(* The end of the dispatch                                                 *)

Finished == phase = "run" /\ pc[0].at = 0

\* Variant of Reply: the headers are copied only when there was no error.
ReplyUnsynced ==
  /\ Finished /\ At(0, "up")
  /\ answer' = IF pc[0].err = 0 THEN Answer(SyncHeaders(ctx[0]))
                                ELSE Answer(ErrorResponse(ctx[0], pc[0].err))
  /\ phase' = "answered"
  /\ Move(0, "done", 0, pc[0].err)
  /\ UNCHANGED <<req, chain, ctx, result, flushed>>

\* The error handler, syncHeaders, releaseContext.
Reply ==
  /\ Finished /\ At(0, "up")
  /\ answer' = Answer(SyncHeaders(IF pc[0].err = 0 THEN ctx[0]
                                  ELSE ErrorResponse(ctx[0], pc[0].err)))
  /\ phase' = "answered"
  /\ Move(0, "done", 0, pc[0].err)
  /\ UNCHANGED <<req, chain, ctx, result, flushed>>

\* A panic nobody recovered ends the process.
Crash ==
  /\ Finished /\ At(0, "panic")
  /\ phase' = "crashed"
  /\ Move(0, "done", 0, 500)
  /\ UNCHANGED <<req, chain, ctx, result, flushed, answer>>

-----------------------------------------------------------------------------
\* The steps a goroutine takes by itself; a crash ends them all.
Step(d) ==
  /\ phase # "crashed"
  /\ \/ Descend(d) \/ Handle(d) \/ HandlePanic(d) \/ Hang(d) \/ Ascend(d) \/ Unwind(d)
     \/ StreamStart(d) \/ Flush(d) \/ StreamEnd(d)
     \/ StartTimeout(d) \/ FinishLate(d) \/ Receive(d)

Timer(d) == phase # "crashed" /\ Expire(d)

\* What a streaming handler's function may do and need not.
Fault(d) == phase # "crashed" /\ (StreamFail(d) \/ StreamPanic(d))

Serve == RedirectSlash \/ Begin \/ Reply \/ Crash

Next == Serve \/ \E d \in Depth : Step(d) \/ Timer(d) \/ Fault(d)

\* Goroutines are scheduled and timers fire.
Fairness == WF_vars(Serve) /\ \A d \in Depth : WF_vars(Step(d)) /\ WF_vars(Timer(d))

Spec == Init /\ [][Next]_vars

FairSpec == Spec /\ Fairness

-----------------------------------------------------------------------------
(* Properties                                                              *)

Modes == {"idle", "down", "up", "panic", "wait", "stuck", "stream", "done"}

Response == [status : Nat, hdr : [Header -> Nat], body : Seq(Content)]

TypeOK ==
  /\ req \in Request /\ chain \in Seq(Kind)
  /\ phase \in {"read", "run", "answered", "crashed"}
  /\ \A d \in Depth :
       /\ Answer(ctx[d]) \in Response /\ ctx[d].pend \in [Header -> Nat]
       /\ ctx[d].path \in Path /\ ctx[d].init \in BOOLEAN /\ ctx[d].synced \in BOOLEAN
       /\ pc[d].mode \in Modes /\ pc[d].err \in Nat
       /\ pc[d].at \in pc[d].base .. Len(chain)
  /\ result \in [Depth -> Nat]
  /\ flushed \in 0 .. Flushes
  /\ answer \in Response

\* What the chain of this request, with its end, can come to by itself.
Whole == IF phase = "read" \/ req.route = "slash" THEN Append(chain, Last) ELSE chain

Results ==
  IF req.route = "slash" THEN {Result(SlashResponse(req, Fresh(req.path)), 0)}
                         ELSE Run(Whole, req)[Len(Whole)][Fresh(req.path)]

E == INSTANCE Exchange WITH
       answers <- {Respond(r) : r \in {r \in Results : ~r.panic}},
       panics <- \E r \in Results : r.panic,
       fatal <- \E i \in 1 .. Len(Whole) : Whole[i] = "stream",
       phase <- IF phase \in {"read", "run"} THEN "open" ELSE phase

\* However the goroutines and the timers interleave, the request gets one whole
\* answer: that of its chain run by itself, with or without the elements below a
\* Timeout; never one of two runs mixed.
Implements == E!Spec

\* And it gets it if there is one.
Closes == E!Closes

\* The elements of a chain that always call Next.
Passing == {"requestid", "helmet", "recover", "etag", "responsetime", "compress", "skipped"}

Passes(k) == k \in Passing \/ (k = "cors" /\ req.method # "OPTIONS")

HeaderOf == [requestid |-> "rid", helmet |-> "security", cors |-> "cors"]

Owed(k) == k \in DOMAIN HeaderOf /\ (k = "cors" => AllowedOrigin(req))

\* Element k leaves header h in the writer's map, or Sets it in the response itself.
Queues(k, h) == k \in DOMAIN HeaderOf /\ HeaderOf[k] = h
Sends(k, h)  == k = "ownid" /\ h = "rid"

\* Header h reaches the response twice: left in the writer above and Set directly
\* below, or left in the writers of both sides of a Timeout.
Doubled(h) ==
  \E i, k \in 1 .. Len(chain) :
    /\ i < k /\ Queues(chain[i], h)
    /\ \/ Sends(chain[k], h)
       \/ /\ Queues(chain[k], h)
          /\ \E j \in i + 1 .. k - 1 : chain[j] = "timeout"

\* adapter_syncheaders_test.go: whoever copies the writer's headers first, the
\* handler's Write, the error handler or the dispatch, each arrives once.  Two
\* ways of setting a header do send it twice, for the copy adds to what the
\* response has: a middleware's header that is also in the schema of the
\* handler's Send (RequestID and an X-Request-Id of the response's struct), and
\* an element on both sides of a Timeout.  There are no others.
HeaderOnce ==
  phase = "answered" =>
    \A h \in Header \ {"cookie"} : answer.hdr[h] > 1 => Doubled(h)

\* mux.go runNotFound: "This ensures middleware (e.g. CORS) always executes even
\* when no route is matched".  What an element reached outside of any Timeout
\* has put into the writer's headers is in the answer, be it a 404, a recovered
\* panic or a timeout.
EarlyHeadersDelivered ==
  phase = "answered" /\ req.route # "slash" =>
    \A i \in 1 .. Len(chain) :
      Owed(chain[i]) /\ (\A j \in 1 .. i - 1 : Passes(chain[j])) =>
        answer.hdr[HeaderOf[chain[i]]] >= 1

\* A request whose handler fails or panics, or that has no handler, is never
\* answered as a success, wherever Recover, Timeout and ETag stand.  (Not
\* with ETag and a matching If-None-Match: it makes a 304 of an error that comes
\* after a written body.)
FailureShown ==
  phase = "answered" /\ req.route # "slash"
  /\ Last \in {"fail", "writefail", "panic", "notfound", "notallowed"}
  /\ (\A i \in 1 .. Len(chain) - 1 : chain[i] = "timeout" \/ Passes(chain[i]))
  /\ (Last = "writefail" => req.match = <<>>)
    => answer.status >= 400

\* What Timeout copies back is what the chain below it left: from the moment its
\* result is on the channel, nothing writes to the copy any more.
ResultStable ==
  [][\A d \in Depth : result[d] # NoResult =>
       ctx'[d] = ctx[d] /\ result'[d] = result[d]]_vars

\* A chain that is still running when its Timeout has given up comes to its
\* end, unless its handler blocks by itself: nobody is needed to take its result.
LateEnds ==
  \A d \in 1 .. MaxTimeouts :
    At(d, "down") ~> (phase = "crashed" \/ pc[d].mode \in {"done", "stuck", "stream"})

\* docs/routing.md:127: a request for a path of another method "receives a `405
\* Method Not Allowed` response with an `Allow` header".
AllowOn405 == phase = "answered" /\ answer.status = 405 => answer.hdr["allow"] = 1

\* README.md:666: a handler streams 10 events, each flushed, and the client gets
\* them; here a request for such a handler gets a response at all.
StreamAnswered == phase = "run" /\ req.handler = "stream" ~> phase # "run"
=============================================================================
