-------------------------- MODULE RequestLifecycle ---------------------------
(***************************************************************************)
(* The pooled state a request lives in: the sync.Pool of contexts          *)
(* (mux.go acquireContext and releaseContext, context.go reset), the       *)
(* sync.Pool of schema values each route's rules keep (requests.go         *)
(* Validate and ValidateAndBind), and the copies Context.Copy makes for    *)
(* goroutines that run beside or after the handler (background jobs, the   *)
(* Timeout middleware, websocket sessions).                                *)
(*                                                                         *)
(* A Conn is one fasthttp RequestCtx: it serves one request after the      *)
(* other and parses each into the same buffers.  handleFastHTTP keeps the  *)
(* method as b2s(ctx.Method()), and the path parameters, as strings that   *)
(* alias these buffers: whoever holds such a string reads what the buffer  *)
(* says now.  All routes share one pattern, told apart by their method, and*)
(* each has a schema of its own.                                           *)
(***************************************************************************)
EXTENDS Naturals

CONSTANTS
  Conn,      \* fasthttp RequestCtx objects
  Ctx,       \* *context objects
  Val,       \* schema struct values
  Worker,    \* goroutines that hold a Copy()
  Method,    \* the methods with a route on the pattern
  Length,    \* the length of each method's name
  MaxReq,    \* bound on the number of requests
  None       \* no such object

ASSUME LengthAssumption == Length \in [Method -> Nat]
ASSUME MaxReqAssumption == MaxReq \in Nat
ASSUME NoneAssumption == None \notin Conn \cup Ctx \cup Val \cup Method

VARIABLES
  served,    \* how many requests have been read
  buf,       \* what each conn's buffers hold: a method and a request's data
  step,      \* where each conn's serving goroutine is
  ctxOf,     \* the context each conn's request uses
  pool,      \* the contexts in s.ctxPool
  made,      \* the contexts ever allocated by its New
  opts,      \* the conn and method each context's strings came from
  cached,    \* each context's bindedCacheResult
  spool,     \* the values in each route's rules.schemaPool
  typ,       \* the route whose struct type each value has
  data,      \* the request whose data each value holds, 0 once zeroed
  job,       \* the goroutines that hold a copy, and what the copy came from
  copied     \* each copy's bindedCacheResult

vars == <<served, buf, step, ctxOf, pool, made, opts, cached, spool, typ, data,
          job, copied>>

Request == 0 .. MaxReq

\* bindedCacheResult: not bound; bound with an error; bound by Validate, with
\* no value; bound with a value.
NotBound == [bound |-> "no", val |-> None]
Failed   == [bound |-> "err", val |-> None]
Checked  == [bound |-> "checked", val |-> None]
Holds(v) == [bound |-> "value", val |-> v]

Result == {NotBound, Failed, Checked} \cup {Holds(v) : v \in Val}

JobRecord == [kind : {"none", "background", "timeout", "session"},
              src : Conn \cup {None}, method : Method \cup {None}, req : Request]

TypeOK ==
  /\ served \in Request
  /\ buf \in [Conn -> [method : Method, req : Request]]
  /\ step \in [Conn -> {"idle", "read", "handling", "waiting", "hijacked"}]
  /\ ctxOf \in [Conn -> Ctx \cup {None}]
  /\ pool \subseteq made /\ made \subseteq Ctx
  /\ opts \in [Ctx -> [src : Conn \cup {None}, method : Method \cup {None}]]
  /\ cached \in [Ctx -> Result]
  /\ spool \in [Method -> SUBSET Val]
  /\ typ \in [Val -> Method \cup {None}]
  /\ data \in [Val -> Request]
  /\ job \in [Worker -> JobRecord]
  /\ copied \in [Worker -> Result]

NoJob == [kind |-> "none", src |-> None, method |-> None, req |-> 0]

Running(w) == job[w].kind # "none"

Init ==
  /\ served = 0
  /\ buf \in [Conn -> [method : Method, req : {0}]]
  /\ step = [k \in Conn |-> "idle"]
  /\ ctxOf = [k \in Conn |-> None]
  /\ pool = {} /\ made = {}
  /\ opts = [x \in Ctx |-> [src |-> None, method |-> None]]
  /\ cached = [x \in Ctx |-> NotBound]
  /\ spool = [m \in Method |-> {}]
  /\ typ = [v \in Val |-> None]
  /\ data = [v \in Val |-> 0]
  /\ job = [w \in Worker |-> NoJob]
  /\ copied = [w \in Worker |-> NotBound]

-----------------------------------------------------------------------------
(* Strings that alias a request's buffers                                  *)

\* What a string made by b2s when src's method was m reads now: the method in
\* the buffer if it has the same length, else a mix that names no route (None).
AliasedMethod(src, m) ==
  IF src # None /\ m # None /\ Length[buf[src].method] = Length[m]
    THEN buf[src].method
    ELSE None

\* rules(): the routes whose schemaRules a holder of (src, m) looks up.
Rules(src, m) == {AliasedMethod(src, m)} \ {None}

\* sync.Pool.Get of a route's schemaPool returns v: a pooled value, or a new one.
Get(m, v) ==
  \/ /\ v \in spool[m]
     /\ spool' = [spool EXCEPT ![m] = @ \ {v}]
     /\ UNCHANGED typ
  \/ /\ typ[v] = None
     /\ typ' = [typ EXCEPT ![v] = m]
     /\ UNCHANGED spool

-----------------------------------------------------------------------------
(* Serving a request                                                       *)

\* fasthttp parses the next request into the conn's buffers.
ReadRequest(k) ==
  /\ step[k] = "idle" /\ served < MaxReq
  /\ served' = served + 1
  /\ \E m \in Method : buf' = [buf EXCEPT ![k] = [method |-> m, req |-> served + 1]]
  /\ step' = [step EXCEPT ![k] = "read"]
  /\ UNCHANGED <<ctxOf, pool, made, opts, cached, spool, typ, data, job,
                 copied>>

\* Variant of Recycle: the value is returned with what it held.
RecycleDirty(x) ==
  /\ IF cached[x].bound = "value"
       THEN spool' = [m \in Method |-> IF m \in Rules(opts[x].src, opts[x].method)
                                    THEN spool[m] \cup {cached[x].val} ELSE spool[m]]
       ELSE UNCHANGED spool
  /\ UNCHANGED data

\* reset: the value the context still caches goes back, zeroed, to the pool of
\* the rules its (pattern, method) finds now.
Recycle(x) ==
  IF cached[x].bound = "value"
    THEN LET R == Rules(opts[x].src, opts[x].method)
             v == cached[x].val
         IN  /\ spool' = [m \in Method |-> IF m \in R THEN spool[m] \cup {v} ELSE spool[m]]
             /\ data' = IF R # {} THEN [data EXCEPT ![v] = 0] ELSE data
    ELSE UNCHANGED <<spool, data>>

\* Variant of Acquire: reset leaves bindedCacheResult as it was.
AcquireUncleared(k) ==
  /\ step[k] = "read"
  /\ \E x \in pool \cup (Ctx \ made) :
       /\ pool' = pool \ {x}
       /\ made' = made \cup {x}
       /\ Recycle(x)
       /\ opts' = [opts EXCEPT ![x] = [src |-> k, method |-> buf[k].method]]
       /\ ctxOf' = [ctxOf EXCEPT ![k] = x]
  /\ step' = [step EXCEPT ![k] = "handling"]
  /\ UNCHANGED <<served, buf, cached, typ, job, copied>>

\* acquireContext: a pooled or a new context, reset; getValue finds the route;
\* setContextSettings.
Acquire(k) ==
  /\ step[k] = "read"
  /\ \E x \in pool \cup (Ctx \ made) :
       /\ pool' = pool \ {x}
       /\ made' = made \cup {x}
       /\ Recycle(x)
       /\ opts' = [opts EXCEPT ![x] = [src |-> k, method |-> buf[k].method]]
       /\ cached' = [cached EXCEPT ![x] = NotBound]
       /\ ctxOf' = [ctxOf EXCEPT ![k] = x]
  /\ step' = [step EXCEPT ![k] = "handling"]
  /\ UNCHANGED <<served, buf, typ, job, copied>>

Handling(k, x) == step[k] = "handling" /\ x = ctxOf[k]

\* Validate of the whole request, not cached yet: it allocates no value.
Validate(k) ==
  \E x \in Ctx :
    /\ Handling(k, x) /\ cached[x] = NotBound
    /\ \E r \in {Failed, Checked} : cached' = [cached EXCEPT ![x] = r]
    /\ UNCHANGED <<served, buf, step, ctxOf, pool, made, opts, spool, typ,
                   data, job, copied>>

\* ValidateAndBind of the whole request with no cached value or error: the value
\* is cached when the request is valid; on an error it is dropped.
Bind(k, v) ==
  \E x \in Ctx :
    /\ Handling(k, x) /\ cached[x] \in {NotBound, Checked}
    /\ \E m \in Rules(opts[x].src, opts[x].method) :
         /\ Get(m, v)
         /\ typ'[v] = buf[k].method
         /\ data' = [data EXCEPT ![v] = buf[k].req]
    /\ \E r \in {Holds(v), Failed} : cached' = [cached EXCEPT ![x] = r]
    /\ UNCHANGED <<served, buf, step, ctxOf, pool, made, opts, job, copied>>

\* ValidateAndBind of some parts only: never cached, the handler alone has it.
BindPart(k, v) ==
  \E x \in Ctx :
    /\ Handling(k, x)
    /\ \E m \in Rules(opts[x].src, opts[x].method) :
         /\ Get(m, v)
         /\ typ'[v] = buf[k].method
         /\ data' = [data EXCEPT ![v] = buf[k].req]
    /\ UNCHANGED <<served, buf, step, ctxOf, pool, made, opts, cached, job,
                   copied>>

\* schemaPool.Get().(*T) panics on a value of another type; a Recover
\* middleware (or Test) turns it into an error and the chain unwinds.
BindPanic(k, v) ==
  \E x \in Ctx :
    /\ Handling(k, x)
    /\ \E m \in Rules(opts[x].src, opts[x].method) :
         /\ v \in spool[m] /\ typ[v] # buf[k].method
         /\ Get(m, v)
    /\ UNCHANGED <<served, buf, step, ctxOf, pool, made, opts, cached, data,
                   job, copied>>

\* Variant of Finish: the context is released while the chain still runs.
FinishEarly(k) ==
  /\ step[k] = "handling"
  /\ pool' = pool \cup {ctxOf[k]}
  /\ UNCHANGED <<served, buf, step, ctxOf, made, opts, cached, spool, typ, data,
                 job, copied>>

\* The chain has returned, headers are synced: releaseContext.
Finish(k) ==
  /\ step[k] = "handling"
  /\ pool' = pool \cup {ctxOf[k]}
  /\ ctxOf' = [ctxOf EXCEPT ![k] = None]
  /\ step' = [step EXCEPT ![k] = "idle"]
  /\ UNCHANGED <<served, buf, made, opts, cached, spool, typ, data, job,
                 copied>>

-----------------------------------------------------------------------------
(* Copies                                                                  *)

\* Copy: the headers and the body are cloned; the strings of opts and params
\* still alias k's buffers, and the cached value is shared.
CopyTo(k, w, kind) ==
  \E x \in Ctx :
    /\ Handling(k, x)
    /\ ~Running(w)
    /\ job' = [job EXCEPT ![w] =
         [kind |-> kind, src |-> k, method |-> opts[x].method, req |-> buf[k].req]]
    /\ copied' = [copied EXCEPT ![w] = cached[x]]

\* The handler starts a goroutine with a copy and goes on.
Detach(k, w) ==
  /\ CopyTo(k, w, "background")
  /\ UNCHANGED <<served, buf, step, ctxOf, pool, made, opts, cached, spool,
                 typ, data>>

\* The Timeout middleware runs the rest of the chain on a copy.
StartTimeout(k, w) ==
  /\ CopyTo(k, w, "timeout")
  /\ step' = [step EXCEPT ![k] = "waiting"]
  /\ UNCHANGED <<served, buf, ctxOf, pool, made, opts, cached, spool, typ,
                 data>>

\* Its select: the chain's result has come, or the timer has fired first.
LeaveTimeout(k) ==
  /\ step[k] = "waiting"
  /\ step' = [step EXCEPT ![k] = "handling"]
  /\ UNCHANGED <<served, buf, ctxOf, pool, made, opts, cached, spool, typ,
                 data, job, copied>>

\* Variant of Hijack: the context of a hijacked request is released too.
HijackReleased(k, w) ==
  /\ CopyTo(k, w, "session")
  /\ step' = [step EXCEPT ![k] = "hijacked"]
  /\ ctxOf' = [ctxOf EXCEPT ![k] = None]
  /\ pool' = pool \cup {ctxOf[k]}
  /\ UNCHANGED <<served, buf, made, opts, cached, spool, typ, data>>

\* A websocket upgrade: the request is hijacked, its context is not released,
\* and fasthttp keeps the RequestCtx until the session ends.
Hijack(k, w) ==
  /\ CopyTo(k, w, "session")
  /\ step' = [step EXCEPT ![k] = "hijacked"]
  /\ ctxOf' = [ctxOf EXCEPT ![k] = None]
  /\ UNCHANGED <<served, buf, pool, made, opts, cached, spool, typ, data>>

Stop(w) ==
  /\ job' = [job EXCEPT ![w] = NoJob]
  /\ copied' = [copied EXCEPT ![w] = NotBound]

\* ValidateAndBind on a copy: the result is cached in the copy, which no reset
\* ever recycles.  With no rules found it fails; another type panics.
WorkerBind(w, v) ==
  /\ Running(w) /\ copied[w] \in {NotBound, Checked}
  /\ \E m \in Rules(job[w].src, job[w].method) :
       /\ Get(m, v)
       /\ IF typ'[v] = job[w].method
            THEN /\ data' = [data EXCEPT ![v] = job[w].req]
                 /\ \E r \in {Holds(v), Failed} : copied' = [copied EXCEPT ![w] = r]
                 /\ UNCHANGED job
            ELSE Stop(w) /\ UNCHANGED data
  /\ UNCHANGED <<served, buf, step, ctxOf, pool, made, opts, cached>>

\* Variant of WorkerEnd: the value the copy shares goes back to its pool.
WorkerEndPuts(w) ==
  /\ Running(w)
  /\ Stop(w)
  /\ step' = IF job[w].kind = "session"
               THEN [step EXCEPT ![job[w].src] = "idle"] ELSE step
  /\ spool' = [m \in Method |->
       IF copied[w].bound = "value" /\ m = job[w].method
         THEN spool[m] \cup {copied[w].val} ELSE spool[m]]
  /\ UNCHANGED <<served, buf, ctxOf, pool, made, opts, cached, typ, data>>

\* The goroutine returns; the end of a session frees the RequestCtx.
WorkerEnd(w) ==
  /\ Running(w)
  /\ Stop(w)
  /\ step' = IF job[w].kind = "session"
               THEN [step EXCEPT ![job[w].src] = "idle"] ELSE step
  /\ UNCHANGED <<served, buf, ctxOf, pool, made, opts, cached, spool, typ,
                 data>>

-----------------------------------------------------------------------------
ServeStep(k) ==
  \/ ReadRequest(k) \/ Acquire(k) \/ Validate(k) \/ Finish(k) \/ LeaveTimeout(k)
  \/ \E v \in Val : Bind(k, v) \/ BindPart(k, v) \/ BindPanic(k, v)
  \/ \E w \in Worker : Detach(k, w) \/ StartTimeout(k, w) \/ Hijack(k, w)

WorkerStep(w) == WorkerEnd(w) \/ \E v \in Val : WorkerBind(w, v)

Next == (\E k \in Conn : ServeStep(k)) \/ (\E w \in Worker : WorkerStep(w))

Spec == Init /\ [][Next]_vars

-----------------------------------------------------------------------------
(* Properties                                                              *)

\* No two requests share a context, and none uses a context that the pool can
\* hand out: every path of handleFastHTTP releases it exactly once.
ContextExclusive ==
  \A k \in Conn : ctxOf[k] # None =>
    /\ ctxOf[k] \notin pool
    /\ \A j \in Conn \ {k} : ctxOf[j] # ctxOf[k]

Caches(x, v) == cached[x] = Holds(v)

\* A schema value is cached by at most one context, in use or pooled, and while
\* it is cached no route's pool can hand it to another request; it is never in
\* two pools.
ValueExclusive ==
  \A v \in Val :
    /\ \A x, y \in Ctx : Caches(x, v) /\ Caches(y, v) => x = y
    /\ \A x \in Ctx, m \in Method : Caches(x, v) => v \notin spool[m]
    /\ \A m, n \in Method : v \in spool[m] \cap spool[n] => m = n

\* What a handler finds cached is its own request's data, although both the
\* context and the value have served other requests.
OwnData ==
  \A k \in Conn : ctxOf[k] # None /\ cached[ctxOf[k]].bound = "value" =>
    data[cached[ctxOf[k]].val] = buf[k].req

\* No pooled value holds data of an earlier request.
PoolZeroed == \A m \in Method : \A v \in spool[m] : data[v] = 0

\* What a copy reads is still its request's: the aliased strings and the value.
Intact(w) ==
  /\ buf[job[w].src].req = job[w].req
  /\ copied[w].bound = "value" => data[copied[w].val] = job[w].req

\* docs/routing.md:148: for websocket handlers "the fasthttp request buffer
\* remains pinned for the connection lifetime and param values remain safe to
\* read"; the value bound in the handshake is not recycled either.
SessionIntact ==
  \A w \in Worker : job[w].kind = "session" => Intact(w)

\* context.go:79: "Copy creates a deep copy of the Context that is safe to use
\* in a background goroutine"; a copy outlives the handler with its data.
CopyIntact == \A w \in Worker : Running(w) => Intact(w)
=============================================================================
