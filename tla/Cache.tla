-------------------------------- MODULE Cache --------------------------------
(***************************************************************************)
(* The Cache middleware (middleware/cache.go): a map of responses with an  *)
(* entry bound, a byte bound kept by a counter, and expiry times, shared   *)
(* by the requests and by a goroutine that sweeps it once a minute.        *)
(*                                                                         *)
(* A sync.RWMutex guards the map and the counter.  A section that does one *)
(* thing is one action; the section that stores a response (its eviction   *)
(* loop) and the sweep take several, with lock naming who holds the mutex  *)
(* for writing.  The handler runs outside the mutex.                       *)
(*                                                                         *)
(* The body, the content type and the key of a response are abstracted to  *)
(* the size the counter charges for them and to the facts the properties   *)
(* tell apart: whose response it is and when the handler made it.          *)
(***************************************************************************)
EXTENDS Integers, FiniteSets

CONSTANTS
  Key,         \* what cfg.KeyGenerator returns
  Req,         \* requests being served at one time
  Sweeper,     \* the background goroutine
  Nobody,      \* holder of a free mutex
  Size,        \* sizes of a response: its body, content type and key
  Expiration,  \* cfg.Expiration
  MaxEntries,  \* cfg.MaxEntries, <= 0 for no bound
  MaxBytes,    \* cfg.MaxBytes, <= 0 for no bound
  AllowPrivateResponses,   \* cfg.AllowPrivateResponses
  MaxTime      \* bound on the clock

ASSUME SizeAssumption == Size \subseteq Nat
ASSUME ExpirationAssumption == Expiration \in Nat \ {0}
ASSUME BoundsAssumption == MaxEntries \in Int /\ MaxBytes \in Int /\ MaxTime \in Nat
ASSUME AllowAssumption == AllowPrivateResponses \in BOOLEAN
ASSUME NamesAssumption == Sweeper \notin Req /\ Nobody \notin Req \cup {Sweeper}

VARIABLES
  clock,       \* time.Now()
  store,       \* the cached entries by key
  totalBytes,  \* the counter of their sizes
  lock,        \* who is inside mu.Lock()
  pc,          \* where each request is in the middleware
  req,         \* each request: its key, if it is private, and its now
  resp,        \* the response each request has
  hit,         \* whether that response came from the cache
  sweep        \* the sweeper: if it is awake, and its now

vars == <<clock, store, totalBytes, lock, pc, req, resp, hit, sweep>>

Time == 0 .. MaxTime

\* A response: the key and the privacy of the request it answers, when its
\* handler ended, and the size.
Response == [key : Key, private : BOOLEAN, born : Time, size : Nat]

\* What a request keeps in the middleware's locals: now is read at its start.
Request == [key : Key, private : BOOLEAN, now : Time]

NoResponse == [size |-> 0]
NoRequest == [now |-> 0]

Entry == [response : Response, exp : Nat]

TypeOK ==
  /\ clock \in Time
  /\ DOMAIN store \subseteq Key /\ store \in [DOMAIN store -> Entry]
  /\ totalBytes \in Nat
  /\ lock \in Req \cup {Sweeper, Nobody}
  /\ pc \in [Req -> {"idle", "begin", "stale", "next", "store", "evict"}]
  /\ req \in [Req -> Request \cup {NoRequest}]
  /\ resp \in [Req -> Response \cup {NoResponse}]
  /\ \A r \in Req :
       /\ hit[r] => pc[r] = "idle"
       /\ pc[r] # "idle" \/ hit[r] => req[r] \in Request
       /\ pc[r] \in {"store", "evict"} \/ hit[r] => resp[r] \in Response
  /\ hit \in [Req -> BOOLEAN]
  /\ sweep \in [awake : BOOLEAN, now : Time]

Init ==
  /\ clock = 0
  /\ store = [k \in {} |-> NoResponse] /\ totalBytes = 0
  /\ lock = Nobody
  /\ pc = [r \in Req |-> "idle"]
  /\ req = [r \in Req |-> NoRequest]
  /\ resp = [r \in Req |-> NoResponse] /\ hit = [r \in Req |-> FALSE]
  /\ sweep = [awake |-> FALSE, now |-> 0]

Goto(r, from, to) == pc[r] = from /\ pc' = [pc EXCEPT ![r] = to]

\* The middleware's locals are gone once it returns.
Forget(r) ==
  /\ req' = [req EXCEPT ![r] = NoRequest]
  /\ resp' = [resp EXCEPT ![r] = NoResponse]

\* Variant of Less: without the test for a negative counter.
LessUnclamped(n) == totalBytes - n

\* totalBytes -= n, kept from going below 0.
Less(n) == IF n > totalBytes THEN 0 ELSE totalBytes - n

\* The store without the entry under k.
Without(k) == [j \in DOMAIN store \ {k} |-> store[j]]

\* Variant of Delete: the size stays counted.
DeleteCounted(k) ==
  /\ store' = Without(k)
  /\ UNCHANGED totalBytes

\* delete(store, k) with its size taken off the counter.
Delete(k) ==
  /\ store' = Without(k)
  /\ totalBytes' = Less(store[k].response.size)

-----------------------------------------------------------------------------
(* The request path                                                        *)

Tick ==
  /\ clock < MaxTime
  /\ clock' = clock + 1
  /\ UNCHANGED <<store, totalBytes, lock, pc, req, resp, hit, sweep>>

\* Variant of Begin: the Authorization and Cookie headers are not looked at.
BeginPrivate(r, k, p) ==
  /\ Goto(r, "idle", "begin")
  /\ req' = [req EXCEPT ![r] = [key |-> k, private |-> p, now |-> clock]]
  /\ resp' = [resp EXCEPT ![r] = NoResponse] /\ hit' = [hit EXCEPT ![r] = FALSE]
  /\ UNCHANGED <<clock, store, totalBytes, lock, sweep>>

\* A request with a cacheable method, its key and its now.  A private one is
\* passed down the chain, and the cache never hears of it again.
Begin(r, k, p) ==
  /\ p => AllowPrivateResponses
  /\ Goto(r, "idle", "begin")
  /\ req' = [req EXCEPT ![r] = [key |-> k, private |-> p, now |-> clock]]
  /\ resp' = [resp EXCEPT ![r] = NoResponse] /\ hit' = [hit EXCEPT ![r] = FALSE]
  /\ UNCHANGED <<clock, store, totalBytes, lock, sweep>>

\* The lookup under RLock: a live entry answers the request.
Hit(r) ==
  LET k == req[r].key IN
  /\ Goto(r, "begin", "idle")
  /\ lock = Nobody
  /\ k \in DOMAIN store /\ store[k].exp > req[r].now
  /\ resp' = [resp EXCEPT ![r] = store[k].response]
  /\ hit' = [hit EXCEPT ![r] = TRUE]
  /\ UNCHANGED <<clock, store, totalBytes, lock, req, sweep>>

\* The lookup under RLock: nothing, or an entry that has expired.
Miss(r) ==
  LET k == req[r].key IN
  /\ lock = Nobody
  /\ \/ Goto(r, "begin", "next") /\ k \notin DOMAIN store
     \/ Goto(r, "begin", "stale") /\ k \in DOMAIN store /\ store[k].exp <= req[r].now
  /\ UNCHANGED <<clock, store, totalBytes, lock, req, resp, hit, sweep>>

\* Variant of DropStale: the entry is not looked at again under the Lock.
DropUnchecked(r) ==
  LET k == req[r].key IN
  /\ Goto(r, "stale", "next")
  /\ lock = Nobody
  /\ IF k \in DOMAIN store THEN Delete(k) ELSE UNCHANGED <<store, totalBytes>>
  /\ UNCHANGED <<clock, lock, req, resp, hit, sweep>>

\* The stale entry is deleted under Lock, if what is there now is stale too.
DropStale(r) ==
  LET k == req[r].key IN
  /\ Goto(r, "stale", "next")
  /\ lock = Nobody
  /\ IF k \in DOMAIN store /\ store[k].exp <= req[r].now
       THEN Delete(k) ELSE UNCHANGED <<store, totalBytes>>
  /\ UNCHANGED <<clock, lock, req, resp, hit, sweep>>

\* c.Next() returns and the response has a status below 400.  It still has when a
\* handler has returned an error, since the error handler has not run yet.
Next200(r) ==
  /\ Goto(r, "next", "store")
  /\ \E n \in Size :
       resp' = [resp EXCEPT ![r] = [key |-> req[r].key, private |-> req[r].private,
                                    born |-> clock, size |-> n]]
  /\ UNCHANGED <<clock, store, totalBytes, lock, req, hit, sweep>>

\* c.Next() returns and the handler has written a status from 400 up.
Next400(r) ==
  /\ Goto(r, "next", "idle")
  /\ Forget(r)
  /\ UNCHANGED <<clock, store, totalBytes, lock, hit, sweep>>

\* mu.Lock(), and the size of the entry to be replaced is taken off.
Lock(r) ==
  LET k == req[r].key IN
  /\ Goto(r, "store", "evict")
  /\ lock = Nobody /\ lock' = r
  /\ totalBytes' = IF k \in DOMAIN store THEN Less(store[k].response.size) ELSE totalBytes
  /\ UNCHANGED <<clock, store, req, resp, hit, sweep>>

Full(r) ==
  \/ MaxEntries > 0 /\ Cardinality(DOMAIN store) >= MaxEntries
  \/ MaxBytes > 0 /\ totalBytes + resp[r].size > MaxBytes

\* What evictOne may delete: an expired entry if there is one, else any.
Victims(now) ==
  LET expired == {k \in DOMAIN store : store[k].exp < now}
  IN  IF expired # {} THEN expired ELSE DOMAIN store

EvictOne(r) ==
  /\ pc[r] = "evict" /\ Full(r)
  /\ \E k \in Victims(req[r].now) : Delete(k)
  /\ UNCHANGED <<clock, lock, pc, req, resp, hit, sweep>>

\* The end of the section: the entry is stored, counted, and the mutex freed.
PutEntry(r, exp) ==
  LET k == req[r].key IN
  /\ Goto(r, "evict", "idle")
  /\ store' = [j \in DOMAIN store \cup {k} |->
                IF j = k THEN [response |-> resp[r], exp |-> exp] ELSE store[j]]
  /\ totalBytes' = totalBytes + resp[r].size
  /\ lock' = Nobody
  /\ Forget(r)
  /\ UNCHANGED <<clock, hit, sweep>>

\* Variants of Put: no room is made; the loop goes on with nothing left to
\* evict; the expiry is counted from the time of storing.
PutFull(r) == PutEntry(r, req[r].now + Expiration)
PutNoBreak(r) == pc[r] = "evict" /\ ~Full(r) /\ PutEntry(r, req[r].now + Expiration)
PutLate(r) ==
  /\ pc[r] = "evict" /\ (~Full(r) \/ DOMAIN store = {})
  /\ PutEntry(r, clock + Expiration)

\* There is room, or nothing left to evict.
Put(r) ==
  /\ pc[r] = "evict" /\ (~Full(r) \/ DOMAIN store = {})
  /\ PutEntry(r, req[r].now + Expiration)

-----------------------------------------------------------------------------
(* The sweep                                                               *)

Wake ==
  /\ ~sweep.awake
  /\ sweep' = [awake |-> TRUE, now |-> clock]
  /\ UNCHANGED <<clock, store, totalBytes, lock, pc, req, resp, hit>>

SweepLock ==
  /\ sweep.awake /\ lock = Nobody
  /\ lock' = Sweeper
  /\ UNCHANGED <<clock, store, totalBytes, pc, req, resp, hit, sweep>>

SweepOne(k) ==
  /\ lock = Sweeper
  /\ k \in DOMAIN store /\ store[k].exp < sweep.now
  /\ Delete(k)
  /\ UNCHANGED <<clock, lock, pc, req, resp, hit, sweep>>

SweepUnlock ==
  /\ lock = Sweeper
  /\ \A k \in DOMAIN store : store[k].exp >= sweep.now
  /\ lock' = Nobody
  /\ sweep' = [awake |-> FALSE, now |-> sweep.now]
  /\ UNCHANGED <<clock, store, totalBytes, pc, req, resp, hit>>

-----------------------------------------------------------------------------
Runs(r) == EvictOne(r) \/ Put(r) \/ Next200(r) \/ Next400(r)

TakesLock(r) == Hit(r) \/ Miss(r) \/ DropStale(r) \/ Lock(r)

Step(r) ==
  \/ \E k \in Key, p \in BOOLEAN : Begin(r, k, p)
  \/ TakesLock(r) \/ Runs(r)

SweepStep == Wake \/ SweepLock \/ SweepUnlock \/ \E k \in Key : SweepOne(k)

Next == Tick \/ SweepStep \/ \E r \in Req : Step(r)

Spec == Init /\ [][Next]_vars

\* The handler returns, a goroutine inside the mutex runs on, and one that asks
\* for the mutex gets it (a sync.RWMutex starves neither readers nor writers).
Fairness ==
  /\ \A r \in Req : WF_vars(Runs(r)) /\ SF_vars(TakesLock(r))
  /\ WF_vars(SweepUnlock \/ \E k \in Key : SweepOne(k))

FairSpec == Spec /\ Fairness

-----------------------------------------------------------------------------
(* Properties                                                              *)

\* The eviction loop keeps the number of entries within MaxEntries, also when
\* requests for the same key are stored one after the other.
EntriesBounded == MaxEntries > 0 => Cardinality(DOMAIN store) <= MaxEntries

\* A hit is a response to the same key, made less than Expiration ago even
\* though entries expire by the clock read before the handler ran.
HitFresh ==
  \A r \in Req : hit[r] =>
    resp[r].key = req[r].key /\ req[r].now < resp[r].born + Expiration

\* Unless they are allowed, no response made for a request with credentials is
\* ever kept or served.
NoPrivate ==
  ~AllowPrivateResponses =>
    /\ \A k \in DOMAIN store : ~store[k].response.private
    /\ \A r \in Req : hit[r] => ~resp[r].private

\* An entry that has not expired leaves the store only to make room: not by the
\* sweep, and not by a request that saw an older entry under the same key.
LiveEntryStays ==
  [][\A k \in DOMAIN store \ DOMAIN store' : store[k].exp <= clock \/ lock \in Req]_vars

\* The bytes of entries, each a pair of its entry's key and its place there.
BytesOf(entries) == UNION {{k} \X (1 .. entries[k].response.size) : k \in DOMAIN entries}

Bytes == Cardinality(BytesOf(store))

\* The counter never says more than the entries take, so that the cache does
\* not evict for bytes it no longer holds.
NeverOvercounts == totalBytes <= Bytes

\* No request waits for ever in the middleware: the eviction loop ends, although
\* a response may be larger than MaxBytes, and the mutex is always given back.
RequestServed == \A r \in Req : pc[r] # "idle" ~> pc[r] = "idle"

\* cache.go:37: "MaxBytes bounds total cached response bytes".
BytesBounded == lock = Nobody /\ MaxBytes > 0 => Bytes <= MaxBytes
=============================================================================
