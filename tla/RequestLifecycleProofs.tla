----------------------- MODULE RequestLifecycleProofs ------------------------
(***************************************************************************)
(* Proofs about RequestLifecycle for any number of conns, contexts, values,*)
(* goroutines, methods and requests.                                       *)
(***************************************************************************)
EXTENDS RequestLifecycle, TLAPS

-----------------------------------------------------------------------------
(* Types                                                                   *)

\* Looking up the rules of an aliased method finds a route or nothing.
LEMMA RulesType ==
  ASSUME TypeOK, NEW src \in Conn \cup {None}, NEW m \in Method \cup {None}
  PROVE  Rules(src, m) \subseteq Method
BY NoneAssumption DEF Rules, AliasedMethod, TypeOK

\* Taking a value from a pool, or a new one, keeps the pools well typed.
LEMMA GetType ==
  ASSUME spool \in [Method -> SUBSET Val], typ \in [Val -> Method \cup {None}],
         NEW m \in Method, NEW v \in Val, Get(m, v)
  PROVE  /\ spool' \in [Method -> SUBSET Val]
         /\ typ' \in [Val -> Method \cup {None}]
BY DEF Get

\* What bindedCacheResult can be, and when it holds a value.
LEMMA ResultFacts ==
  /\ NotBound \in Result /\ Failed \in Result /\ Checked \in Result
  /\ \A v \in Val : Holds(v) \in Result /\ Holds(v).bound = "value" /\ Holds(v).val = v
  /\ \A r \in Result : r.bound = "value" => r.val \in Val /\ r = Holds(r.val)
  /\ NotBound.bound # "value" /\ Failed.bound # "value" /\ Checked.bound # "value"
<1>1. NotBound \in Result /\ Failed \in Result /\ Checked \in Result
  BY DEF Result
<1>2. \A v \in Val : Holds(v) \in Result /\ Holds(v).bound = "value" /\ Holds(v).val = v
  BY DEF Result, Holds
<1>3. NotBound.bound # "value" /\ Failed.bound # "value" /\ Checked.bound # "value"
  BY DEF NotBound, Failed, Checked
<1>4. ASSUME NEW r \in Result, r.bound = "value" PROVE r.val \in Val /\ r = Holds(r.val)
  <2>1. PICK v \in Val : r = Holds(v)
    BY <1>3, <1>4 DEF Result
  <2> QED
    BY <2>1, <1>2
<1> QED
  BY <1>1, <1>2, <1>3, <1>4

\* A copied cache entry and a job record keep their types.
LEMMA CopyType ==
  ASSUME TypeOK, NEW k \in Conn, NEW w \in Worker,
         NEW kind \in {"background", "timeout", "session"}, CopyTo(k, w, kind)
  PROVE  job' \in [Worker -> JobRecord] /\ copied' \in [Worker -> Result]
BY DEF CopyTo, TypeOK, JobRecord

\* Stopping a goroutine keeps them too.
LEMMA StopType ==
  ASSUME TypeOK, NEW w \in Worker, Stop(w)
  PROVE  job' \in [Worker -> JobRecord] /\ copied' \in [Worker -> Result]
BY ResultFacts, MaxReqAssumption DEF Stop, TypeOK, JobRecord, NoJob, Request

\* Recycling a context's value keeps the pools well typed.
LEMMA RecycleType ==
  ASSUME TypeOK, NEW x \in Ctx, Recycle(x)
  PROVE  spool' \in [Method -> SUBSET Val] /\ data' \in [Val -> Request]
<1>1. CASE cached[x].bound = "value"
  <2>1. cached[x].val \in Val
    BY <1>1, ResultFacts DEF TypeOK
  <2>2. 0 \in Request
    BY MaxReqAssumption DEF Request
  <2>3. spool' \in [Method -> SUBSET Val]
    BY <1>1, <2>1 DEF TypeOK, Recycle
  <2>4. data' \in [Val -> Request]
    <3>1. data' = data \/ data' = [data EXCEPT ![cached[x].val] = 0]
      BY <1>1 DEF Recycle
    <3> QED
      BY <2>1, <2>2, <3>1 DEF TypeOK
  <2> QED
    BY <2>3, <2>4
<1>2. CASE cached[x].bound # "value"
  BY <1>2 DEF TypeOK, Recycle
<1> QED
  BY <1>1, <1>2

\* A request has a context just while it is served, and an allocated one; a
\* session has its hijacked conn to itself.
InUse ==
  /\ \A k \in Conn :
       /\ step[k] \in {"handling", "waiting"} <=> ctxOf[k] # None
       /\ ctxOf[k] # None => ctxOf[k] \in made
  /\ \A w \in Worker : job[w].kind = "session" =>
       /\ job[w].src \in Conn
       /\ step[job[w].src] = "hijacked"
       /\ \A u \in Worker \ {w} : job[u].kind = "session" => job[u].src # job[w].src

\* The first state has the right types.
LEMMA InitType == Init => TypeOK /\ InUse
BY MaxReqAssumption, ResultFacts DEF Init, TypeOK, InUse, NoJob, Request, JobRecord

\* Every step keeps them.
LEMMA NextType == TypeOK /\ InUse /\ [Next]_vars => TypeOK'
<1> SUFFICES ASSUME TypeOK, InUse, [Next]_vars PROVE TypeOK'
  OBVIOUS
<1> USE MaxReqAssumption, NoneAssumption
<1>1. ASSUME NEW k \in Conn, ReadRequest(k) PROVE TypeOK'
  BY <1>1 DEF TypeOK, ReadRequest, Request
<1>2. ASSUME NEW k \in Conn, Acquire(k) PROVE TypeOK'
  <2> PICK x \in pool \cup (Ctx \ made) :
        /\ pool' = pool \ {x}
        /\ made' = made \cup {x}
        /\ Recycle(x)
        /\ opts' = [opts EXCEPT ![x] = [src |-> k, method |-> buf[k].method]]
        /\ cached' = [cached EXCEPT ![x] = NotBound]
        /\ ctxOf' = [ctxOf EXCEPT ![k] = x]
    BY <1>2 DEF Acquire
  <2>1. x \in Ctx
    BY DEF TypeOK
  <2>2. spool' \in [Method -> SUBSET Val] /\ data' \in [Val -> Request]
    BY <2>1, RecycleType
  <2> QED
    BY <1>2, <2>1, <2>2, ResultFacts DEF TypeOK, Acquire
<1>3. ASSUME NEW k \in Conn, Validate(k) PROVE TypeOK'
  BY <1>3, ResultFacts DEF TypeOK, Validate
<1>4. ASSUME NEW k \in Conn, NEW v \in Val, Bind(k, v) \/ BindPart(k, v) \/ BindPanic(k, v)
      PROVE TypeOK'
  <2> PICK x \in Ctx : \E m \in Rules(opts[x].src, opts[x].method) : Get(m, v)
    BY <1>4 DEF Bind, BindPart, BindPanic
  <2> PICK m \in Rules(opts[x].src, opts[x].method) : Get(m, v)
    OBVIOUS
  <2>1. m \in Method
    BY RulesType DEF TypeOK
  <2>2. spool' \in [Method -> SUBSET Val] /\ typ' \in [Val -> Method \cup {None}]
    BY <2>1, GetType DEF TypeOK
  <2>3. data' \in [Val -> Request]
    BY <1>4 DEF TypeOK, Bind, BindPart, BindPanic
  <2>4. cached' \in [Ctx -> Result]
    BY <1>4, ResultFacts DEF TypeOK, Bind, BindPart, BindPanic
  <2> QED
    BY <1>4, <2>2, <2>3, <2>4 DEF TypeOK, Bind, BindPart, BindPanic
<1>5. ASSUME NEW k \in Conn, Finish(k) \/ LeaveTimeout(k) PROVE TypeOK'
  <2>1. CASE Finish(k)
    <3>1. ctxOf[k] \in made
      BY <2>1 DEF InUse, Finish
    <3> QED
      BY <2>1, <3>1 DEF TypeOK, Finish
  <2>2. CASE LeaveTimeout(k)
    BY <2>2 DEF TypeOK, LeaveTimeout
  <2> QED
    BY <1>5, <2>1, <2>2
<1>6. ASSUME NEW k \in Conn, NEW w \in Worker,
             Detach(k, w) \/ StartTimeout(k, w) \/ Hijack(k, w)
      PROVE TypeOK'
  <2>1. job' \in [Worker -> JobRecord] /\ copied' \in [Worker -> Result]
    BY <1>6, CopyType DEF Detach, StartTimeout, Hijack
  <2> QED
    BY <1>6, <2>1 DEF TypeOK, Detach, StartTimeout, Hijack
<1>7. ASSUME NEW w \in Worker, NEW v \in Val, WorkerBind(w, v) PROVE TypeOK'
  <2> PICK m \in Rules(job[w].src, job[w].method) : Get(m, v)
    BY <1>7 DEF WorkerBind
  <2>1. m \in Method
    BY RulesType DEF TypeOK, JobRecord
  <2>2. spool' \in [Method -> SUBSET Val] /\ typ' \in [Val -> Method \cup {None}]
    BY <2>1, GetType DEF TypeOK
  <2>3. /\ data' \in [Val -> Request]
        /\ job' \in [Worker -> JobRecord] /\ copied' \in [Worker -> Result]
    <3>1. CASE Stop(w) /\ UNCHANGED data
      BY <3>1, StopType DEF TypeOK
    <3>2. CASE /\ data' = [data EXCEPT ![v] = job[w].req]
               /\ \E r \in {Holds(v), Failed} : copied' = [copied EXCEPT ![w] = r]
               /\ UNCHANGED job
      <4>1. job[w].req \in Request
        BY DEF TypeOK, JobRecord
      <4>2. copied' \in [Worker -> Result]
        BY <3>2, ResultFacts DEF TypeOK
      <4> QED
        BY <3>2, <4>1, <4>2 DEF TypeOK
    <3> QED
      BY <1>7, <3>1, <3>2 DEF WorkerBind
  <2> QED
    BY <1>7, <2>2, <2>3 DEF TypeOK, WorkerBind
<1>8. ASSUME NEW w \in Worker, WorkerEnd(w) PROVE TypeOK'
  BY <1>8, StopType DEF TypeOK, WorkerEnd
<1>9. CASE UNCHANGED vars
  BY <1>9 DEF vars, TypeOK
<1> QED
  BY <1>1, <1>2, <1>3, <1>4, <1>5, <1>6, <1>7, <1>8, <1>9
  DEF Next, ServeStep, WorkerStep

\* Every step keeps the use of contexts.
LEMMA NextInUse == TypeOK /\ InUse /\ [Next]_vars => InUse'
<1> SUFFICES ASSUME TypeOK, InUse, [Next]_vars PROVE InUse'
  OBVIOUS
<1> USE NoneAssumption DEF InUse
<1>1. ASSUME NEW k \in Conn, ServeStep(k) PROVE InUse'
  <2>1. CASE ReadRequest(k)
    BY <2>1 DEF ReadRequest, TypeOK, JobRecord
  <2>2. CASE Acquire(k)
    BY <2>2 DEF Acquire, TypeOK, JobRecord
  <2>3. CASE Finish(k) \/ LeaveTimeout(k)
    BY <2>3 DEF Finish, LeaveTimeout, TypeOK, JobRecord
  <2>4. ASSUME NEW w \in Worker, Detach(k, w) \/ StartTimeout(k, w) \/ Hijack(k, w)
        PROVE InUse'
    <3>1. /\ step[k] = "handling" /\ ctxOf[k] # None
          /\ \A u \in Worker \ {w} : job'[u] = job[u]
          /\ job'[w].src = k /\ job[w].kind = "none"
      BY <2>4 DEF Detach, StartTimeout, Hijack, CopyTo, Handling, Running, TypeOK
    <3>2. CASE Detach(k, w)
      <4>1. job'[w].kind = "background"
        BY <3>2 DEF Detach, CopyTo, TypeOK
      <4> QED
        BY <3>1, <3>2, <4>1 DEF Detach
    <3>3. CASE StartTimeout(k, w)
      <4>1. job'[w].kind = "timeout"
        BY <3>3 DEF StartTimeout, CopyTo, TypeOK
      <4> QED
        <5>1. \A j \in Conn : /\ step'[j] \in {"handling", "waiting"} <=> ctxOf'[j] # None
                              /\ ctxOf'[j] # None => ctxOf'[j] \in made'
          BY <3>1, <3>3 DEF StartTimeout, TypeOK
        <5>2. \A u \in Worker : job'[u].kind = "session" => u # w /\ job[u].src # k
          BY <3>1, <4>1
        <5>3. \A j \in Conn \ {k} : step'[j] = step[j]
          BY <3>3 DEF StartTimeout, TypeOK
        <5> QED
          BY <3>1, <5>1, <5>2, <5>3
    <3>4. CASE Hijack(k, w)
      <4>1. job'[w].kind = "session"
        BY <3>4 DEF Hijack, CopyTo, TypeOK
      <4> QED
        <5>1. \A j \in Conn : /\ step'[j] \in {"handling", "waiting"} <=> ctxOf'[j] # None
                              /\ ctxOf'[j] # None => ctxOf'[j] \in made'
          BY <3>1, <3>4 DEF Hijack, TypeOK
        <5>2. \A u \in Worker \ {w} : job'[u].kind = "session" => job[u].src # k
          BY <3>1
        <5>3. step'[k] = "hijacked" /\ \A j \in Conn \ {k} : step'[j] = step[j]
          BY <3>4 DEF Hijack, TypeOK
        <5> QED
          BY <3>1, <5>1, <5>2, <5>3
    <3> QED
      BY <2>4, <3>2, <3>3, <3>4
  <2>5. CASE Validate(k)
    BY <2>5 DEF Validate
  <2>6. ASSUME NEW v \in Val, Bind(k, v) \/ BindPart(k, v) \/ BindPanic(k, v)
        PROVE InUse'
    BY <2>6 DEF Bind, BindPart, BindPanic
  <2> QED
    BY <1>1, <2>1, <2>2, <2>3, <2>4, <2>5, <2>6 DEF ServeStep
<1>2. ASSUME NEW w \in Worker, WorkerStep(w) PROVE InUse'
  <2>1. ASSUME NEW v \in Val, WorkerBind(w, v) PROVE InUse'
    <3>1. \A u \in Worker : job'[u] = job[u] \/ job'[u].kind = "none"
      BY <2>1 DEF WorkerBind, Stop, NoJob, TypeOK
    <3> QED
      BY <2>1, <3>1 DEF WorkerBind
  <2>2. CASE WorkerEnd(w)
    BY <2>2 DEF WorkerEnd, Stop, NoJob, TypeOK, JobRecord
  <2> QED
    BY <1>2, <2>1, <2>2 DEF WorkerStep
<1>3. CASE UNCHANGED vars
  BY <1>3 DEF vars
<1> QED
  BY <1>1, <1>2, <1>3 DEF Next

\* Every variable keeps its type.
THEOREM TypeCorrect == Spec => []TypeOK
<1>1. Spec => [](TypeOK /\ InUse)
  BY InitType, NextType, NextInUse, PTL DEF Spec
<1> QED
  BY <1>1, PTL

-----------------------------------------------------------------------------
(* Contexts                                                                *)

\* Contexts are not shared, one that was never allocated caches nothing, and
\* one in use remembers its own request.
CtxInv ==
  /\ ContextExclusive
  /\ \A x \in Ctx \ made : cached[x] = NotBound
  /\ \A k \in Conn : ctxOf[k] # None => opts[ctxOf[k]].src = k

\* The steps that touch neither contexts nor what they cache.
LEMMA CtxStutter ==
  ASSUME CtxInv, UNCHANGED <<ctxOf, pool, made, opts, cached>>
  PROVE  CtxInv'
BY DEF CtxInv, ContextExclusive

\* acquireContext and releaseContext move a context between its pool and one
\* request; all else leaves it there.
LEMMA NextCtx == TypeOK /\ InUse /\ CtxInv /\ [Next]_vars => CtxInv'
<1> SUFFICES ASSUME TypeOK, InUse, CtxInv, [Next]_vars PROVE CtxInv'
  OBVIOUS
<1> USE NoneAssumption
<1>1. ASSUME NEW k \in Conn, Acquire(k) PROVE CtxInv'
  <2> PICK x \in pool \cup (Ctx \ made) :
        /\ pool' = pool \ {x}
        /\ made' = made \cup {x}
        /\ opts' = [opts EXCEPT ![x] = [src |-> k, method |-> buf[k].method]]
        /\ cached' = [cached EXCEPT ![x] = NotBound]
        /\ ctxOf' = [ctxOf EXCEPT ![k] = x]
    BY <1>1 DEF Acquire
  <2>1. x \in Ctx /\ \A j \in Conn : ctxOf[j] # x
    BY DEF TypeOK, InUse, CtxInv, ContextExclusive
  <2>2. ContextExclusive'
    BY <2>1 DEF ContextExclusive, CtxInv, TypeOK
  <2>3. \A y \in Ctx \ made' : cached'[y] = NotBound
    BY <2>1 DEF CtxInv, TypeOK
  <2>4. \A j \in Conn : ctxOf'[j] # None => opts'[ctxOf'[j]].src = j
    BY <2>1 DEF CtxInv, TypeOK
  <2> QED
    BY <2>2, <2>3, <2>4 DEF CtxInv
<1>2. ASSUME NEW k \in Conn, Finish(k) PROVE CtxInv'
  BY <1>2 DEF Finish, CtxInv, ContextExclusive, TypeOK, InUse
<1>3. ASSUME NEW k \in Conn, NEW w \in Worker, Hijack(k, w) PROVE CtxInv'
  BY <1>3 DEF Hijack, CtxInv, ContextExclusive, TypeOK
<1>4. ASSUME NEW k \in Conn, NEW x \in Ctx, Handling(k, x),
             UNCHANGED <<ctxOf, pool, made, opts>>,
             \A y \in Ctx \ {x} : cached'[y] = cached[y]
      PROVE CtxInv'
  <2>1. x \in made
    BY <1>4 DEF Handling, InUse
  <2> QED
    BY <1>4, <2>1 DEF CtxInv, ContextExclusive
<1>5. ASSUME NEW k \in Conn, Validate(k) PROVE CtxInv'
  <2> PICK x \in Ctx : Handling(k, x) /\ \E r \in {Failed, Checked} : cached' = [cached EXCEPT ![x] = r]
    BY <1>5 DEF Validate
  <2>1. \A y \in Ctx \ {x} : cached'[y] = cached[y]
    BY DEF TypeOK
  <2> QED
    BY <1>4, <1>5, <2>1 DEF Validate
<1>6. ASSUME NEW k \in Conn, NEW v \in Val, Bind(k, v) PROVE CtxInv'
  <2> PICK x \in Ctx : Handling(k, x) /\ \E r \in {Holds(v), Failed} : cached' = [cached EXCEPT ![x] = r]
    BY <1>6 DEF Bind
  <2>1. \A y \in Ctx \ {x} : cached'[y] = cached[y]
    BY DEF TypeOK
  <2> QED
    BY <1>4, <1>6, <2>1 DEF Bind
<1>7. ASSUME NEW k \in Conn,
             \/ ReadRequest(k) \/ LeaveTimeout(k)
             \/ \E v \in Val : BindPart(k, v) \/ BindPanic(k, v)
             \/ \E w \in Worker : Detach(k, w) \/ StartTimeout(k, w)
      PROVE CtxInv'
  BY <1>7, CtxStutter DEF ReadRequest, LeaveTimeout, BindPart, BindPanic, Detach, StartTimeout
<1>8. ASSUME NEW w \in Worker, WorkerStep(w) PROVE CtxInv'
  BY <1>8, CtxStutter DEF WorkerStep, WorkerBind, WorkerEnd
<1>9. CASE UNCHANGED vars
  BY <1>9, CtxStutter DEF vars
<1> QED
  BY <1>1, <1>2, <1>3, <1>5, <1>6, <1>7, <1>8, <1>9 DEF Next, ServeStep

-----------------------------------------------------------------------------
(* Values                                                                  *)

\* Values are not shared, and one that is cached or pooled was allocated.
ValInv ==
  /\ ValueExclusive
  /\ \A x \in Ctx, v \in Val : Caches(x, v) => typ[v] # None
  /\ \A w \in Worker, v \in Val : copied[w] = Holds(v) => typ[v] # None
  /\ \A m \in Method : \A v \in spool[m] : typ[v] # None

\* v has just been taken by a sync.Pool.Get: nobody cached it, no pool has it.
Taken(v) ==
  /\ typ[v] = None \/ \E m \in Method : v \in spool[m]
  /\ \A x \in Ctx : ~Caches(x, v)
  /\ \A n \in Method : spool'[n] \subseteq spool[n] /\ v \notin spool'[n]
  /\ \A u \in Val : typ[u] # None => typ'[u] = typ[u]
  /\ typ'[v] # None

\* A Get hands out a value that nothing else can reach.
LEMMA GetTakes ==
  ASSUME TypeOK, ValInv, NEW m \in Method, NEW v \in Val, Get(m, v)
  PROVE  Taken(v)
<1> USE NoneAssumption DEF TypeOK, ValInv, ValueExclusive
<1>1. CASE v \in spool[m] /\ spool' = [spool EXCEPT ![m] = @ \ {v}] /\ UNCHANGED typ
  <2>1. \A x \in Ctx : ~Caches(x, v)
    BY <1>1
  <2>2. \A n \in Method : spool'[n] \subseteq spool[n] /\ v \notin spool'[n]
    BY <1>1
  <2> QED
    BY <1>1, <2>1, <2>2 DEF Taken
<1>2. CASE typ[v] = None /\ typ' = [typ EXCEPT ![v] = m] /\ UNCHANGED spool
  BY <1>2 DEF Taken
<1> QED
  BY <1>1, <1>2 DEF Get

\* Binding a request takes a value.
LEMMA BindTakes ==
  ASSUME TypeOK, ValInv, NEW k \in Conn, NEW v \in Val,
         Bind(k, v) \/ BindPart(k, v) \/ BindPanic(k, v)
  PROVE  Taken(v)
<1> PICK x \in Ctx : \E m \in Rules(opts[x].src, opts[x].method) : Get(m, v)
  BY DEF Bind, BindPart, BindPanic
<1> PICK m \in Rules(opts[x].src, opts[x].method) : Get(m, v)
  OBVIOUS
<1>1. m \in Method
  BY RulesType DEF TypeOK
<1> QED
  BY <1>1, GetTakes

\* So does binding a copy.
LEMMA WorkerBindTakes ==
  ASSUME TypeOK, ValInv, NEW w \in Worker, NEW v \in Val, WorkerBind(w, v)
  PROVE  Taken(v)
<1> PICK m \in Rules(job[w].src, job[w].method) : Get(m, v)
  BY DEF WorkerBind
<1>1. m \in Method
  BY RulesType DEF TypeOK, JobRecord
<1> QED
  BY <1>1, GetTakes

\* A pooled value stays with one holder, whoever takes or returns it.
LEMMA NextVal == TypeOK /\ InUse /\ ValInv /\ [Next]_vars => ValInv'
<1> SUFFICES ASSUME TypeOK, InUse, ValInv, [Next]_vars PROVE ValInv'
  OBVIOUS
<1>1. ASSUME NEW k \in Conn, Acquire(k) PROVE ValInv'
  <2> PICK x \in pool \cup (Ctx \ made) :
        Recycle(x) /\ cached' = [cached EXCEPT ![x] = NotBound]
    BY <1>1 DEF Acquire
  <2>1. x \in Ctx
    BY DEF TypeOK
  <2>2. /\ cached'[x] = NotBound
        /\ \A y \in Ctx \ {x} : cached'[y] = cached[y]
        /\ \A v \in Val : ~Caches(x, v)'
    BY <2>1, ResultFacts DEF TypeOK, Caches
  <2>3. UNCHANGED <<typ, copied>>
    BY <1>1 DEF Acquire
  <2>4. CASE cached[x].bound = "value"
    <3> DEFINE v == cached[x].val
    <3>1. v \in Val /\ Caches(x, v)
      BY <2>1, <2>4, ResultFacts DEF TypeOK, Caches
    <3>2. \A n \in Method : v \notin spool[n]
      BY <2>1, <3>1 DEF ValInv, ValueExclusive
    <3>3. \A n \in Method : spool'[n] =
            IF n \in Rules(opts[x].src, opts[x].method) THEN spool[n] \cup {v} ELSE spool[n]
      BY <2>4 DEF Recycle
    <3>4. \A n, q \in Rules(opts[x].src, opts[x].method) : n = q
      BY DEF Rules
    <3>5. \A y \in Ctx \ {x} : ~Caches(y, v)
      BY <2>1, <3>1 DEF ValInv, ValueExclusive
    <3> HIDE DEF v
    <3>6. ValueExclusive'
      <4>1. \A y, z \in Ctx, u \in Val : Caches(y, u)' /\ Caches(z, u)' => y = z
        BY <2>2 DEF ValInv, ValueExclusive, Caches
      <4>2. \A y \in Ctx, n \in Method, u \in Val : Caches(y, u)' => u \notin spool'[n]
        <5> SUFFICES ASSUME NEW y \in Ctx, NEW n \in Method, NEW u \in Val, Caches(y, u)'
                     PROVE  u \notin spool'[n]
          OBVIOUS
        <5>1. y # x /\ Caches(y, u)
          BY <2>2 DEF Caches
        <5>2. u # v /\ u \notin spool[n]
          BY <5>1, <3>5 DEF ValInv, ValueExclusive
        <5> QED
          BY <5>2, <3>3
      <4>3. \A n, q \in Method, u \in Val : u \in spool'[n] \cap spool'[q] => n = q
        <5> SUFFICES ASSUME NEW n \in Method, NEW q \in Method, NEW u \in Val,
                            u \in spool'[n], u \in spool'[q]
                     PROVE  n = q
          OBVIOUS
        <5>1. CASE u = v
          <6>1. n \in Rules(opts[x].src, opts[x].method) /\ q \in Rules(opts[x].src, opts[x].method)
            BY <5>1, <3>2, <3>3
          <6> QED
            BY <6>1, <3>4
        <5>2. CASE u # v
          <6>1. \A p \in Method : spool'[p] \subseteq spool[p] \cup {v}
            BY <3>3
          <6>2. u \in spool[n] /\ u \in spool[q]
            BY <5>2, <6>1
          <6> QED
            BY <6>2 DEF ValInv, ValueExclusive
        <5> QED
          BY <5>1, <5>2
      <4> QED
        BY <4>1, <4>2, <4>3 DEF ValueExclusive
    <3> QED
      <4>1. \A y \in Ctx, u \in Val : Caches(y, u)' => typ'[u] # None
        BY <2>2, <2>3 DEF ValInv, Caches
      <4>2. \A w \in Worker, u \in Val : copied'[w] = Holds(u) => typ'[u] # None
        BY <2>3 DEF ValInv
      <4>3. typ[v] # None
        BY <2>1, <3>1 DEF ValInv
      <4>4. \A n \in Method : \A u \in spool'[n] : typ'[u] # None
        BY <2>3, <3>1, <3>3, <4>3 DEF ValInv
      <4> QED
        BY <3>6, <4>1, <4>2, <4>4 DEF ValInv
  <2>5. CASE cached[x].bound # "value"
    BY <2>1, <2>2, <2>3, <2>5 DEF Recycle, ValInv, ValueExclusive, Caches
  <2> QED
    BY <2>4, <2>5
<1>2. ASSUME NEW v \in Val, NEW x \in Ctx, Taken(v), UNCHANGED copied,
             cached'[x] \in {cached[x], Holds(v), Failed},
             \A y \in Ctx \ {x} : cached'[y] = cached[y]
      PROVE ValInv'
  <2>1. \A u \in Val : Failed # Holds(u) /\ (Holds(v) = Holds(u) => u = v)
    BY ResultFacts
  <2>2. ValueExclusive'
    BY <1>2, <2>1 DEF Taken, ValInv, ValueExclusive, Caches
  <2>3. \A m \in Method : \A u \in spool'[m] : typ'[u] # None
    BY <1>2 DEF Taken, ValInv, TypeOK
  <2>4. \A y \in Ctx, u \in Val : Caches(y, u)' => typ'[u] # None
    BY <1>2, <2>1 DEF Taken, ValInv, Caches
  <2>5. \A w \in Worker, u \in Val : copied'[w] = Holds(u) => typ'[u] # None
    BY <1>2 DEF Taken, ValInv
  <2> QED
    BY <2>2, <2>3, <2>4, <2>5 DEF ValInv
<1>3. ASSUME NEW k \in Conn, NEW v \in Val, Bind(k, v) \/ BindPart(k, v) \/ BindPanic(k, v)
      PROVE ValInv'
  <2> PICK x \in Ctx :
        \/ \E r \in {Holds(v), Failed} : cached' = [cached EXCEPT ![x] = r]
        \/ UNCHANGED cached
    BY <1>3 DEF Bind, BindPart, BindPanic
  <2>1. /\ cached'[x] \in {cached[x], Holds(v), Failed}
        /\ \A y \in Ctx \ {x} : cached'[y] = cached[y]
    BY DEF TypeOK
  <2>2. UNCHANGED copied
    BY <1>3 DEF Bind, BindPart, BindPanic
  <2> QED
    BY <1>2, <1>3, <2>1, <2>2, BindTakes
<1>4. ASSUME NEW w \in Worker, NEW v \in Val, WorkerBind(w, v) PROVE ValInv'
  <2>1. Taken(v) /\ UNCHANGED cached
    BY <1>4, WorkerBindTakes DEF WorkerBind
  <2>2. \A u \in Worker : copied'[u] \in {copied[u], Holds(v), Failed, NotBound}
    BY <1>4 DEF WorkerBind, Stop, TypeOK
  <2>3. \A u \in Val : /\ Failed # Holds(u) /\ NotBound # Holds(u)
                       /\ Holds(v) = Holds(u) => u = v
    BY ResultFacts
  <2>4. ValueExclusive'
    BY <2>1 DEF Taken, ValInv, ValueExclusive, Caches
  <2>5. \A u \in Worker, q \in Val : copied'[u] = Holds(q) => typ'[q] # None
    BY <2>1, <2>2, <2>3 DEF Taken, ValInv
  <2>6. \A m \in Method : \A u \in spool'[m] : typ'[u] # None
    BY <2>1 DEF Taken, ValInv, TypeOK
  <2>7. \A y \in Ctx, u \in Val : Caches(y, u)' => typ'[u] # None
    BY <2>1 DEF Taken, ValInv, Caches
  <2> QED
    BY <2>4, <2>5, <2>6, <2>7 DEF ValInv
<1>5. ASSUME UNCHANGED <<spool, typ>>,
             \A x \in Ctx, v \in Val : Caches(x, v)' => Caches(x, v),
             \A w \in Worker, v \in Val : copied'[w] = Holds(v) => typ[v] # None
      PROVE ValInv'
  BY <1>5 DEF ValInv, ValueExclusive
<1>6. ASSUME NEW k \in Conn, Validate(k) PROVE ValInv'
  <2>1. \A x \in Ctx, v \in Val : Caches(x, v)' => Caches(x, v)
    BY <1>6, ResultFacts DEF Validate, TypeOK, Caches
  <2> QED
    BY <1>5, <1>6, <2>1 DEF Validate, ValInv
<1>7. ASSUME NEW k \in Conn, NEW w \in Worker,
             Detach(k, w) \/ StartTimeout(k, w) \/ Hijack(k, w)
      PROVE ValInv'
  <2>1. UNCHANGED <<spool, typ, cached>>
    BY <1>7 DEF Detach, StartTimeout, Hijack
  <2>2. PICK x \in Ctx : copied' = [copied EXCEPT ![w] = cached[x]]
    BY <1>7 DEF Detach, StartTimeout, Hijack, CopyTo
  <2>3. \A u \in Worker : copied'[u] \in {copied[u], cached[x]}
    BY <2>2 DEF TypeOK
  <2> QED
    BY <1>5, <2>1, <2>3 DEF ValInv, Caches
<1>8. ASSUME NEW w \in Worker, WorkerEnd(w) PROVE ValInv'
  <2>1. \A u \in Worker : copied'[u] \in {copied[u], NotBound}
    BY <1>8 DEF WorkerEnd, Stop, TypeOK
  <2>2. \A v \in Val : NotBound # Holds(v)
    BY ResultFacts
  <2> QED
    BY <1>5, <1>8, <2>1, <2>2 DEF WorkerEnd, ValInv, Caches
<1>9. ASSUME UNCHANGED <<spool, typ, cached, copied>> PROVE ValInv'
  BY <1>9 DEF ValInv, ValueExclusive, Caches
<1>10. ASSUME NEW k \in Conn, ReadRequest(k) \/ Finish(k) \/ LeaveTimeout(k) PROVE ValInv'
  BY <1>9, <1>10 DEF ReadRequest, Finish, LeaveTimeout
<1>11. CASE UNCHANGED vars
  BY <1>9, <1>11 DEF vars
<1> QED
  BY <1>1, <1>3, <1>4, <1>6, <1>7, <1>8, <1>10, <1>11 DEF Next, ServeStep, WorkerStep

-----------------------------------------------------------------------------
(* Data                                                                    *)

\* What a request's context caches is its own data, in the form the proofs use.
Own == \A k \in Conn, v \in Val :
         ctxOf[k] # None /\ Caches(ctxOf[k], v) => data[v] = buf[k].req

\* The value a session reads is out of reach of every pool and of every context
\* that can be reset.
Sessions ==
  \A w \in Worker : job[w].kind = "session" =>
    /\ buf[job[w].src].req = job[w].req
    /\ \A v \in Val : copied[w] = Holds(v) =>
         /\ data[v] = job[w].req
         /\ \A m \in Method : v \notin spool[m]
         /\ \A x \in Ctx : Caches(x, v) =>
              x \in made \ pool /\ \A k \in Conn : ctxOf[k] # x

DataInv == Own /\ PoolZeroed /\ Sessions

Inv == TypeOK /\ InUse /\ CtxInv /\ ValInv

\* Own says the same as OwnData.
LEMMA OwnIsOwnData == ASSUME TypeOK PROVE Own <=> OwnData
<1>1. \A k \in Conn : ctxOf[k] # None => cached[ctxOf[k]] \in Result
  BY DEF TypeOK
<1> QED
  BY <1>1, ResultFacts DEF Own, OwnData, Caches

\* A value that has just been taken may be filled with a request's data.
LEMMA FillTaken ==
  ASSUME Inv, DataInv, NEW v \in Val, Taken(v), NEW r \in Request,
         data' \in {data, [data EXCEPT ![v] = r]},
         UNCHANGED <<buf, ctxOf, pool, made, job>>
  PROVE  /\ PoolZeroed'
         /\ \A u \in Val \ {v} : data'[u] = data[u]
         /\ \A w \in Worker : job[w].kind = "session" => copied[w] # Holds(v)
<1> USE DEF Inv, TypeOK, DataInv, Taken
<1>1. \A u \in Val \ {v} : data'[u] = data[u]
  OBVIOUS
<1>2. PoolZeroed'
  BY <1>1 DEF PoolZeroed
<1>3. \A w \in Worker : job[w].kind = "session" => copied[w] # Holds(v)
  BY DEF Sessions, ValInv
<1> QED
  BY <1>1, <1>2, <1>3

\* Reset zeroes what it returns, and touches no value in anyone's hands.
LEMMA AcquireData ==
  ASSUME Inv, DataInv, NEW k \in Conn, Acquire(k) PROVE DataInv'
<1> USE NoneAssumption DEF Inv
<1> PICK x \in pool \cup (Ctx \ made) :
      /\ pool' = pool \ {x}
      /\ made' = made \cup {x}
      /\ Recycle(x)
      /\ cached' = [cached EXCEPT ![x] = NotBound]
      /\ ctxOf' = [ctxOf EXCEPT ![k] = x]
  BY DEF Acquire
<1>1. x \in Ctx /\ \A j \in Conn : ctxOf[j] # x
  BY DEF TypeOK, InUse, CtxInv, ContextExclusive
<1>2. UNCHANGED <<buf, job, copied>>
  BY DEF Acquire
<1>3. \A y \in Ctx, u \in Val : Caches(y, u)' => y # x /\ Caches(y, u)
  BY <1>1, ResultFacts DEF TypeOK, Caches
<1>4. \A u \in Val : Caches(x, u) \/
        (data'[u] = data[u] /\ \A m \in Method : u \in spool'[m] => u \in spool[m])
  <2>1. CASE cached[x].bound = "value"
    <3>1. cached[x].val \in Val /\ Caches(x, cached[x].val)
      BY <1>1, <2>1, ResultFacts DEF TypeOK, Caches
    <3>2. data' \in {data, [data EXCEPT ![cached[x].val] = 0]}
      BY <2>1 DEF Recycle
    <3>3. \A m \in Method : spool'[m] \subseteq spool[m] \cup {cached[x].val}
      BY <2>1 DEF Recycle
    <3> QED
      BY <3>1, <3>2, <3>3 DEF TypeOK
  <2>2. CASE cached[x].bound # "value"
    BY <2>2 DEF Recycle
  <2> QED
    BY <2>1, <2>2
<1>5. PoolZeroed'
  <2>1. CASE cached[x].bound = "value"
    <3> DEFINE v == cached[x].val
               R == Rules(opts[x].src, opts[x].method)
    <3>1. v \in Val
      BY <1>1, <2>1, ResultFacts DEF TypeOK
    <3>2. CASE R = {}
      <4>1. data' = data /\ \A m \in Method : spool'[m] = spool[m]
        BY <2>1, <3>2 DEF Recycle
      <4> QED
        BY <4>1 DEF PoolZeroed, DataInv
    <3>3. CASE R # {}
      <4>1. data' = [data EXCEPT ![v] = 0] /\ \A m \in Method : spool'[m] \subseteq spool[m] \cup {v}
        BY <2>1, <3>3 DEF Recycle
      <4>2. \A u \in Val : data'[u] = IF u = v THEN 0 ELSE data[u]
        BY <3>1, <4>1 DEF TypeOK
      <4>3. \A m \in Method : spool[m] \subseteq Val
        BY DEF TypeOK
      <4> HIDE DEF v
      <4> QED
        BY <3>1, <4>1, <4>2, <4>3 DEF PoolZeroed, DataInv
    <3> QED
      BY <3>2, <3>3
  <2>2. CASE cached[x].bound # "value"
    BY <2>2 DEF Recycle, PoolZeroed, DataInv
  <2> QED
    BY <2>1, <2>2
<1>6. Own'
  <2> SUFFICES ASSUME NEW j \in Conn, NEW u \in Val,
                      ctxOf'[j] # None, cached'[ctxOf'[j]] = Holds(u)
               PROVE  data'[u] = buf'[j].req
    BY DEF Own, Caches
  <2>1. ctxOf'[j] \in Ctx
    BY <1>1 DEF TypeOK
  <2>2. ctxOf'[j] # x /\ Caches(ctxOf'[j], u)
    BY <1>3, <2>1 DEF Caches
  <2>3. j # k /\ ctxOf'[j] = ctxOf[j]
    BY <2>2 DEF TypeOK
  <2>4. ~Caches(x, u)
    BY <1>1, <2>1, <2>2 DEF ValInv, ValueExclusive
  <2> QED
    BY <1>2, <1>4, <2>2, <2>3, <2>4 DEF Own, DataInv
<1>7. Sessions'
  <2> SUFFICES ASSUME NEW w \in Worker, job[w].kind = "session", NEW u \in Val, copied[w] = Holds(u)
               PROVE  /\ data'[u] = job[w].req
                      /\ \A m \in Method : u \notin spool'[m]
                      /\ \A y \in Ctx : Caches(y, u)' =>
                           y \in made' \ pool' /\ \A j \in Conn : ctxOf'[j] # y
    BY <1>2 DEF Sessions, DataInv
  <2>1. ~Caches(x, u)
    BY <1>1 DEF Sessions, DataInv
  <2>2. data'[u] = job[w].req /\ \A m \in Method : u \notin spool'[m]
    BY <1>4, <2>1 DEF Sessions, DataInv
  <2>3. ASSUME NEW y \in Ctx, Caches(y, u)'
        PROVE  y \in made' \ pool' /\ \A j \in Conn : ctxOf'[j] # y
    BY <1>1, <1>3, <2>3 DEF Sessions, DataInv, TypeOK
  <2> QED
    BY <2>2, <2>3
<1> QED
  BY <1>5, <1>6, <1>7 DEF DataInv

\* Every step keeps own data, pools and sessions as they should be.
LEMMA NextData == Inv /\ DataInv /\ [Next]_vars => DataInv'
<1> SUFFICES ASSUME Inv, DataInv, [Next]_vars PROVE DataInv'
  OBVIOUS
<1> USE NoneAssumption DEF Inv
<1>1. ASSUME NEW k \in Conn, ReadRequest(k) PROVE DataInv'
  <2>1. ctxOf[k] = None /\ \A w \in Worker : job[w].kind = "session" => job[w].src # k
    BY <1>1 DEF ReadRequest, InUse
  <2>2. \A j \in Conn \ {k} : buf'[j] = buf[j]
    BY <1>1 DEF ReadRequest, TypeOK
  <2>3. \A w \in Worker : job[w].kind = "session" => job[w].src \in Conn
    BY DEF InUse
  <2> QED
    BY <1>1, <2>1, <2>2, <2>3 DEF ReadRequest, DataInv, Own, PoolZeroed, Sessions, Caches
<1>2. ASSUME NEW k \in Conn, NEW v \in Val, Bind(k, v) \/ BindPart(k, v) \/ BindPanic(k, v)
      PROVE DataInv'
  <2> PICK x \in Ctx :
        /\ Handling(k, x)
        /\ \/ \E r \in {Holds(v), Failed} : cached' = [cached EXCEPT ![x] = r]
           \/ UNCHANGED cached
        /\ data' \in {data, [data EXCEPT ![v] = buf[k].req]}
        /\ cached' = cached \/ data' = [data EXCEPT ![v] = buf[k].req]
    BY <1>2 DEF Bind, BindPart, BindPanic
  <2>1. Taken(v) /\ UNCHANGED <<buf, ctxOf, pool, made, job, copied>>
    BY <1>2, BindTakes DEF Bind, BindPart, BindPanic
  <2>2. /\ PoolZeroed'
        /\ \A u \in Val \ {v} : data'[u] = data[u]
        /\ \A w \in Worker : job[w].kind = "session" => copied[w] # Holds(v)
    <3>1. buf[k].req \in Request
      BY DEF TypeOK
    <3> QED
      BY <2>1, <3>1, FillTaken
  <2>3. \A y \in Ctx, u \in Val : cached'[y] = Holds(u) =>
          \/ cached[y] = Holds(u) /\ u # v
          \/ y = x /\ u = v /\ cached' # cached
    BY <2>1, ResultFacts DEF TypeOK, Taken, Caches
  <2>4. Own'
    <3> SUFFICES ASSUME NEW j \in Conn, NEW u \in Val, ctxOf[j] # None, cached'[ctxOf[j]] = Holds(u)
                 PROVE  data'[u] = buf[j].req
      BY <2>1 DEF Own, Caches
    <3>1. ctxOf[j] \in Ctx
      BY DEF TypeOK
    <3>2. CASE cached[ctxOf[j]] = Holds(u) /\ u # v
      BY <2>2, <3>2 DEF DataInv, Own, Caches
    <3>3. CASE ctxOf[j] = x /\ u = v /\ cached' # cached
      <4>1. j = k
        BY <3>3 DEF Handling, CtxInv, ContextExclusive
      <4> QED
        BY <3>3, <4>1 DEF TypeOK
    <3> QED
      BY <2>3, <3>1, <3>2, <3>3
  <2>5. Sessions'
    <3> SUFFICES ASSUME NEW w \in Worker, job[w].kind = "session"
                 PROVE  /\ buf[job[w].src].req = job[w].req
                        /\ \A u \in Val : copied[w] = Holds(u) =>
                             /\ data'[u] = job[w].req
                             /\ \A m \in Method : u \notin spool'[m]
                             /\ \A y \in Ctx : cached'[y] = Holds(u) =>
                                  y \in made \ pool /\ \A j \in Conn : ctxOf[j] # y
      BY <2>1 DEF Sessions, Caches
    <3>1. \A u \in Val : copied[w] = Holds(u) => u # v
      BY <2>2
    <3> QED
      BY <2>1, <2>2, <2>3, <3>1 DEF Sessions, DataInv, Taken, Caches
  <2> QED
    BY <2>2, <2>4, <2>5 DEF DataInv
<1>3. ASSUME NEW k \in Conn, Validate(k) PROVE DataInv'
  <2>1. \A x \in Ctx, v \in Val : cached'[x] = Holds(v) => cached[x] = Holds(v)
    BY <1>3, ResultFacts DEF Validate, TypeOK
  <2>2. \A j \in Conn : ctxOf[j] # None => ctxOf[j] \in Ctx
    BY DEF TypeOK
  <2> QED
    BY <1>3, <2>1, <2>2 DEF Validate, DataInv, Own, PoolZeroed, Sessions, Caches
<1>4. ASSUME NEW k \in Conn, Finish(k) PROVE DataInv'
  <2>1. UNCHANGED <<buf, made, cached, spool, data, job, copied>>
    BY <1>4 DEF Finish
  <2>2. \A j \in Conn : ctxOf'[j] = IF j = k THEN None ELSE ctxOf[j]
    BY <1>4 DEF Finish, TypeOK
  <2>3. \A y : y \in pool' <=> y \in pool \/ y = ctxOf[k]
    BY <1>4 DEF Finish
  <2> QED
    BY <2>1, <2>2, <2>3 DEF DataInv, Own, PoolZeroed, Sessions, Caches, TypeOK
<1>5. ASSUME NEW k \in Conn, NEW w \in Worker, Detach(k, w) \/ StartTimeout(k, w)
      PROVE DataInv'
  <2>1. UNCHANGED <<buf, ctxOf, pool, made, cached, spool, data>>
    BY <1>5 DEF Detach, StartTimeout
  <2>2. /\ job'[w].kind # "session"
        /\ \A u \in Worker \ {w} : job'[u] = job[u] /\ copied'[u] = copied[u]
    BY <1>5 DEF Detach, StartTimeout, CopyTo, TypeOK
  <2> QED
    BY <2>1, <2>2 DEF DataInv, Own, PoolZeroed, Sessions, Caches
<1>6. ASSUME NEW k \in Conn, NEW w \in Worker, Hijack(k, w) PROVE DataInv'
  <2>1. UNCHANGED <<buf, pool, made, cached, spool, data>>
    BY <1>6 DEF Hijack
  <2>2. PICK x \in Ctx :
          /\ Handling(k, x)
          /\ job' = [job EXCEPT ![w] =
               [kind |-> "session", src |-> k, method |-> opts[x].method, req |-> buf[k].req]]
          /\ copied' = [copied EXCEPT ![w] = cached[x]]
    BY <1>6 DEF Hijack, CopyTo
  <2>3. \A u \in Worker \ {w} : job'[u] = job[u] /\ copied'[u] = copied[u]
    BY <2>2 DEF TypeOK
  <2>4. job'[w].src = k /\ job'[w].req = buf[k].req /\ copied'[w] = cached[x]
    BY <2>2 DEF TypeOK
  <2>5. \A j \in Conn : ctxOf'[j] = IF j = k THEN None ELSE ctxOf[j]
    BY <1>6 DEF Hijack, TypeOK
  <2>6. ctxOf[k] = x /\ x \in made \ pool /\ \A j \in Conn \ {k} : ctxOf[j] # x
    BY <2>2 DEF Handling, CtxInv, ContextExclusive, InUse
  <2>7. ASSUME NEW v \in Val, cached[x] = Holds(v)
        PROVE  /\ data[v] = buf[k].req
               /\ \A m \in Method : v \notin spool[m]
               /\ \A y \in Ctx : cached[y] = Holds(v) => y = x
    BY <2>6, <2>7 DEF DataInv, Own, ValInv, ValueExclusive, Caches
  <2>8. Own' /\ PoolZeroed'
    BY <2>1, <2>5 DEF DataInv, Own, PoolZeroed, Caches
  <2>9. Sessions'
    <3> SUFFICES ASSUME NEW u \in Worker, job'[u].kind = "session"
                 PROVE  /\ buf[job'[u].src].req = job'[u].req
                        /\ \A v \in Val : copied'[u] = Holds(v) =>
                             /\ data[v] = job'[u].req
                             /\ \A m \in Method : v \notin spool[m]
                             /\ \A y \in Ctx : cached[y] = Holds(v) =>
                                  y \in made \ pool /\ \A j \in Conn : ctxOf'[j] # y
      BY <2>1 DEF Sessions, Caches
    <3>1. CASE u = w
      BY <2>4, <2>5, <2>6, <2>7, <3>1
    <3>2. CASE u # w
      BY <2>3, <2>5, <3>2 DEF DataInv, Sessions, Caches, TypeOK
    <3> QED
      BY <3>1, <3>2
  <2> QED
    BY <2>8, <2>9 DEF DataInv
<1>7. ASSUME NEW w \in Worker, NEW v \in Val, WorkerBind(w, v) PROVE DataInv'
  <2>1. Taken(v) /\ UNCHANGED <<buf, ctxOf, pool, made, cached>>
    BY <1>7, WorkerBindTakes DEF WorkerBind
  <2>2. CASE Stop(w) /\ UNCHANGED data
    <3>1. /\ job'[w].kind # "session"
          /\ \A u \in Worker \ {w} : job'[u] = job[u] /\ copied'[u] = copied[u]
      BY <2>2 DEF Stop, NoJob, TypeOK
    <3>2. PoolZeroed'
      BY <2>1, <2>2 DEF PoolZeroed, DataInv, Taken
    <3> QED
      BY <2>1, <2>2, <3>1, <3>2 DEF DataInv, Own, Sessions, Caches, Taken
  <2>3. CASE /\ data' = [data EXCEPT ![v] = job[w].req]
             /\ \E r \in {Holds(v), Failed} : copied' = [copied EXCEPT ![w] = r]
             /\ UNCHANGED job
    <3>1. job[w].req \in Request
      BY DEF TypeOK, JobRecord
    <3>2. /\ PoolZeroed'
          /\ \A u \in Val \ {v} : data'[u] = data[u]
          /\ \A q \in Worker : job[q].kind = "session" => copied[q] # Holds(v)
      BY <2>1, <2>3, <3>1, FillTaken
    <3>3. Own'
      BY <2>1, <3>2 DEF Own, DataInv, Taken, Caches, TypeOK
    <3>4. \A q \in Worker, u \in Val : copied'[q] = Holds(u) =>
            \/ copied[q] = Holds(u)
            \/ q = w /\ u = v
      BY <2>3, ResultFacts DEF TypeOK
    <3>5. data'[v] = job[w].req
      BY <2>3 DEF TypeOK
    <3>6. Sessions'
      <4> SUFFICES ASSUME NEW q \in Worker, job[q].kind = "session", NEW u \in Val, copied'[q] = Holds(u)
                   PROVE  /\ data'[u] = job[q].req
                          /\ \A m \in Method : u \notin spool'[m]
                          /\ \A y \in Ctx : cached[y] = Holds(u) =>
                               y \in made \ pool /\ \A j \in Conn : ctxOf[j] # y
        BY <2>1, <2>3 DEF Sessions, Caches, DataInv
      <4>1. CASE copied[q] = Holds(u)
        <5>1. u # v
          BY <3>2, <4>1
        <5> QED
          BY <2>1, <3>2, <4>1, <5>1 DEF DataInv, Sessions, Taken, Caches
      <4>2. CASE q = w /\ u = v
        BY <2>1, <3>5, <4>2 DEF Taken, Caches
      <4> QED
        BY <3>4, <4>1, <4>2
    <3> QED
      BY <3>2, <3>3, <3>6 DEF DataInv
  <2> QED
    BY <1>7, <2>2, <2>3 DEF WorkerBind
<1>8. ASSUME NEW w \in Worker, WorkerEnd(w) PROVE DataInv'
  <2>1. UNCHANGED <<buf, ctxOf, pool, made, cached, spool, data>>
    BY <1>8 DEF WorkerEnd
  <2>2. /\ job'[w].kind # "session"
        /\ \A u \in Worker \ {w} : job'[u] = job[u] /\ copied'[u] = copied[u]
    BY <1>8 DEF WorkerEnd, Stop, NoJob, TypeOK
  <2> QED
    BY <2>1, <2>2 DEF DataInv, Own, PoolZeroed, Sessions, Caches
<1>9. ASSUME UNCHANGED <<buf, ctxOf, pool, made, cached, spool, data, job, copied>>
      PROVE DataInv'
  BY <1>9 DEF DataInv, Own, PoolZeroed, Sessions, Caches
<1>10. ASSUME NEW k \in Conn, LeaveTimeout(k) PROVE DataInv'
  BY <1>9, <1>10 DEF LeaveTimeout
<1>11. CASE UNCHANGED vars
  BY <1>9, <1>11 DEF vars
<1> QED
  BY <1>1, <1>2, <1>3, <1>4, <1>5, <1>6, <1>7, <1>8, <1>10, <1>11, AcquireData
  DEF Next, ServeStep, WorkerStep

-----------------------------------------------------------------------------
(* The theorems                                                            *)

\* The first state has nothing allocated, cached or copied.
LEMMA InitInv == Init => Inv /\ DataInv
<1> SUFFICES ASSUME Init PROVE Inv /\ DataInv
  OBVIOUS
<1>1. TypeOK /\ InUse
  BY InitType
<1>2. /\ \A v \in Val : NotBound # Holds(v)
      /\ \A k \in Conn : ctxOf[k] = None
      /\ \A x \in Ctx : cached[x] = NotBound
      /\ \A w \in Worker : job[w].kind # "session" /\ copied[w] = NotBound
      /\ \A m \in Method : spool[m] = {}
  BY ResultFacts DEF Init, NoJob
<1>3. CtxInv
  BY <1>2 DEF CtxInv, ContextExclusive
<1>4. ValInv
  BY <1>2 DEF ValInv, ValueExclusive, Caches
<1>5. DataInv
  BY <1>2 DEF DataInv, Own, PoolZeroed, Sessions, Caches
<1> QED
  BY <1>1, <1>3, <1>4, <1>5 DEF Inv

\* The inductive invariant holds in every reachable state.
THEOREM Invariance == Spec => [](Inv /\ DataInv)
<1>1. Inv /\ DataInv /\ [Next]_vars => (Inv /\ DataInv)'
  BY NextType, NextInUse, NextCtx, NextVal, NextData DEF Inv
<1> QED
  BY InitInv, <1>1, PTL DEF Spec

\* No two requests ever share a context, and none uses a pooled one, whatever
\* the number of connections and however the chain ends: acquireContext and
\* releaseContext.
THEOREM ContextsExclusive == Spec => []ContextExclusive
<1>1. Inv => ContextExclusive
  BY DEF Inv, CtxInv
<1> QED
  BY Invariance, <1>1, PTL

\* No schema value is cached by two contexts, cached and pooled, or in two
\* pools: schemaPool.Get and reset.
THEOREM ValuesExclusive == Spec => []ValueExclusive
<1>1. Inv => ValueExclusive
  BY DEF Inv, ValInv
<1> QED
  BY Invariance, <1>1, PTL

\* A handler never finds another request's data in its cached value, although
\* reset runs only when a context is next acquired.
THEOREM RequestsOwnData == Spec => []OwnData
<1>1. Inv /\ DataInv => OwnData
  BY OwnIsOwnData DEF Inv, DataInv
<1> QED
  BY Invariance, <1>1, PTL

\* A pooled schema value holds no request's data: reset zeroes before Put.
THEOREM PoolsZeroed == Spec => []PoolZeroed
<1>1. DataInv => PoolZeroed
  BY DEF DataInv
<1> QED
  BY Invariance, <1>1, PTL

\* The copy a websocket session holds reads its own handshake for as long as it
\* runs: a hijacked context is never released.
THEOREM SessionsIntact == Spec => []SessionIntact
<1>1. Inv /\ DataInv => SessionIntact
  <2> SUFFICES ASSUME Inv, DataInv, NEW w \in Worker, job[w].kind = "session" PROVE Intact(w)
    BY DEF SessionIntact
  <2>1. copied[w].bound = "value" => copied[w].val \in Val /\ copied[w] = Holds(copied[w].val)
    BY ResultFacts DEF Inv, TypeOK
  <2> QED
    BY <2>1 DEF DataInv, Sessions, Intact
<1> QED
  BY Invariance, <1>1, PTL

=============================================================================
