----------------------------- MODULE CacheProofs -----------------------------
(***************************************************************************)
(* Proofs about Cache for any keys, number of requests, sizes and bounds.  *)
(***************************************************************************)
EXTENDS Cache, FiniteSetTheorems, TLAPS

USE SizeAssumption, ExpirationAssumption, BoundsAssumption, NamesAssumption

-----------------------------------------------------------------------------
(* Types                                                                   *)

\* The counter stays a natural number whatever is taken off.
LEMMA LessType == ASSUME totalBytes \in Nat, NEW n \in Nat PROVE Less(n) \in Nat
BY DEF Less

\* Deleting an entry takes away that key and no other.
LEMMA DeleteFacts ==
  ASSUME TypeOK, NEW k \in DOMAIN store, Delete(k)
  PROVE  /\ DOMAIN store' = DOMAIN store \ {k}
         /\ store' \in [DOMAIN store' -> Entry]
         /\ \A j \in DOMAIN store' : store'[j] = store[j]
         /\ totalBytes' \in Nat
<1>1. store[k].response.size \in Nat
  BY DEF TypeOK, Entry, Response
<1> QED
  BY <1>1, LessType DEF Delete, Without, TypeOK

\* The first state has the right types.
LEMMA InitType == Init => TypeOK
BY DEF Init, TypeOK, Time

\* Every step keeps them.
LEMMA NextType == TypeOK /\ [Next]_vars => TypeOK'
<1> SUFFICES ASSUME TypeOK, [Next]_vars PROVE TypeOK'
  OBVIOUS
<1>1. CASE Tick
  BY <1>1 DEF Tick, TypeOK, Time
<1>2. ASSUME NEW r \in Req, NEW k \in Key, NEW p \in BOOLEAN, Begin(r, k, p) PROVE TypeOK'
  <2>1. [key |-> k, private |-> p, now |-> clock] \in Request
    BY DEF TypeOK, Request
  <2> QED
    BY <1>2, <2>1 DEF Begin, Goto, TypeOK
<1>3. ASSUME NEW r \in Req, Hit(r) PROVE TypeOK'
  <2>1. req[r].key \in DOMAIN store /\ store[req[r].key].response \in Response
    BY <1>3 DEF Hit, TypeOK, Entry
  <2> QED
    BY <1>3, <2>1 DEF Hit, Goto, TypeOK
<1>4. ASSUME NEW r \in Req, Miss(r) PROVE TypeOK'
  BY <1>4 DEF Miss, Goto, TypeOK
<1>5. ASSUME NEW r \in Req, DropStale(r) PROVE TypeOK'
  <2>1. /\ DOMAIN store' \subseteq Key /\ store' \in [DOMAIN store' -> Entry]
        /\ totalBytes' \in Nat
    <3>1. CASE req[r].key \in DOMAIN store /\ Delete(req[r].key)
      BY <3>1, DeleteFacts DEF TypeOK
    <3>2. CASE UNCHANGED <<store, totalBytes>>
      BY <3>2 DEF TypeOK
    <3> QED
      BY <1>5, <3>1, <3>2 DEF DropStale
  <2> QED
    BY <1>5, <2>1 DEF DropStale, Goto, TypeOK
<1>6. ASSUME NEW r \in Req, Next200(r) PROVE TypeOK'
  <2>1. PICK n \in Size :
          resp' = [resp EXCEPT ![r] = [key |-> req[r].key, private |-> req[r].private,
                                       born |-> clock, size |-> n]]
    BY <1>6 DEF Next200
  <2>2. req[r] \in Request
    BY <1>6 DEF Next200, Goto, TypeOK
  <2>3. [key |-> req[r].key, private |-> req[r].private,
         born |-> clock, size |-> n] \in Response
    BY <2>2 DEF TypeOK, Request, Response
  <2> QED
    BY <1>6, <2>1, <2>3 DEF Next200, Goto, TypeOK
<1>7. ASSUME NEW r \in Req, Next400(r) PROVE TypeOK'
  BY <1>7 DEF Next400, Goto, Forget, TypeOK
<1>8. ASSUME NEW r \in Req, Lock(r) PROVE TypeOK'
  <2>1. totalBytes' \in Nat
    <3>1. \A k \in DOMAIN store : store[k].response.size \in Nat
      BY DEF TypeOK, Entry, Response
    <3> QED
      BY <1>8, <3>1, LessType DEF Lock, TypeOK
  <2> QED
    BY <1>8, <2>1 DEF Lock, Goto, TypeOK
<1>9. ASSUME NEW r \in Req, EvictOne(r) PROVE TypeOK'
  <2>1. PICK k \in DOMAIN store : Delete(k)
    BY <1>9 DEF EvictOne, Victims
  <2> QED
    BY <1>9, <2>1, DeleteFacts DEF EvictOne, TypeOK
<1>10. ASSUME NEW r \in Req, Put(r) PROVE TypeOK'
  <2>1. /\ pc[r] = "evict" /\ PutEntry(r, req[r].now + Expiration)
        /\ req[r] \in Request /\ resp[r] \in Response
    BY <1>10 DEF Put, TypeOK
  <2>2. [response |-> resp[r], exp |-> req[r].now + Expiration] \in Entry
    BY <2>1 DEF Request, Entry, Time
  <2>3. /\ DOMAIN store' \subseteq Key /\ store' \in [DOMAIN store' -> Entry]
        /\ totalBytes' \in Nat
    BY <2>1, <2>2 DEF PutEntry, TypeOK, Request, Response
  <2> QED
    BY <2>1, <2>3 DEF PutEntry, Goto, Forget, TypeOK
<1>11. CASE SweepStep
  <2>1. CASE Wake
    BY <2>1 DEF Wake, TypeOK
  <2>2. CASE SweepLock
    BY <2>2 DEF SweepLock, TypeOK
  <2>3. ASSUME NEW k \in Key, SweepOne(k) PROVE TypeOK'
    BY <2>3, DeleteFacts DEF SweepOne, TypeOK
  <2>4. CASE SweepUnlock
    BY <2>4 DEF SweepUnlock, TypeOK
  <2> QED
    BY <1>11, <2>1, <2>2, <2>3, <2>4 DEF SweepStep
<1>12. CASE UNCHANGED vars
  BY <1>12 DEF vars, TypeOK
<1> QED
  BY <1>1, <1>2, <1>3, <1>4, <1>5, <1>6, <1>7, <1>8, <1>9, <1>10, <1>11, <1>12
  DEF Next, Step, TakesLock, Runs

\* Every variable keeps its type: the counter of bytes never goes below 0.
THEOREM TypeCorrect == Spec => []TypeOK
BY InitType, NextType, PTL DEF Spec

-----------------------------------------------------------------------------
(* The number of entries                                                   *)

EntryInv == IsFiniteSet(DOMAIN store) /\ EntriesBounded

\* Deletion keeps the bound.
LEMMA DeleteEntryInv ==
  ASSUME TypeOK, EntryInv, NEW k \in DOMAIN store, Delete(k) PROVE EntryInv'
<1>1. DOMAIN store' = DOMAIN store \ {k}
  BY DeleteFacts
<1>2. /\ IsFiniteSet(DOMAIN store') /\ Cardinality(DOMAIN store) \in Nat
      /\ Cardinality(DOMAIN store') = Cardinality(DOMAIN store) - 1
  BY <1>1, FS_RemoveElement, FS_CardinalityType DEF EntryInv
<1> QED
  BY <1>2 DEF EntryInv, EntriesBounded

\* Only storing adds a key, and only after room was made.
LEMMA NextEntry == TypeOK /\ EntryInv /\ [Next]_vars => EntryInv'
<1> SUFFICES ASSUME TypeOK, EntryInv, [Next]_vars PROVE EntryInv'
  OBVIOUS
<1>1. ASSUME UNCHANGED store PROVE EntryInv'
  BY <1>1 DEF EntryInv, EntriesBounded
<1>2. ASSUME NEW r \in Req, DropStale(r) PROVE EntryInv'
  <2>1. CASE req[r].key \in DOMAIN store /\ Delete(req[r].key)
    BY <2>1, DeleteEntryInv
  <2>2. CASE UNCHANGED store
    BY <1>1, <2>2
  <2> QED
    BY <1>2, <2>1, <2>2 DEF DropStale
<1>3. ASSUME NEW r \in Req, EvictOne(r) PROVE EntryInv'
  <2>1. PICK k \in DOMAIN store : Delete(k)
    BY <1>3 DEF EvictOne, Victims
  <2> QED
    BY <2>1, DeleteEntryInv
<1>4. ASSUME NEW r \in Req, Put(r) PROVE EntryInv'
  <2> DEFINE k == req[r].key
  <2>1. DOMAIN store' = DOMAIN store \cup {k} /\ (~Full(r) \/ DOMAIN store = {})
    BY <1>4 DEF Put, PutEntry
  <2> HIDE DEF k
  <2>2. /\ IsFiniteSet(DOMAIN store') /\ Cardinality(DOMAIN store) \in Nat
        /\ Cardinality(DOMAIN store') <= Cardinality(DOMAIN store) + 1
    <3>1. IsFiniteSet(DOMAIN store) /\ Cardinality(DOMAIN store) \in Nat
      BY FS_CardinalityType DEF EntryInv
    <3>2. /\ IsFiniteSet(DOMAIN store')
          /\ Cardinality(DOMAIN store') =
               IF k \in DOMAIN store THEN Cardinality(DOMAIN store) ELSE Cardinality(DOMAIN store) + 1
      BY <2>1, <3>1, FS_AddElement
    <3> QED
      BY <3>1, <3>2
  <2>3. ASSUME MaxEntries > 0 PROVE Cardinality(DOMAIN store) < MaxEntries
    <3>1. CASE ~Full(r)
      BY <2>2, <2>3, <3>1 DEF Full
    <3>2. CASE DOMAIN store = {}
      BY <2>3, <3>2, FS_EmptySet
    <3> QED
      BY <2>1, <3>1, <3>2
  <2>4. Cardinality(DOMAIN store') \in Nat
    BY <2>2, FS_CardinalityType
  <2> QED
    BY <2>2, <2>3, <2>4 DEF EntryInv, EntriesBounded
<1>5. ASSUME NEW r \in Req, Hit(r) \/ Miss(r) \/ Lock(r) \/ Next200(r) \/ Next400(r)
      PROVE EntryInv'
  BY <1>1, <1>5 DEF Hit, Miss, Lock, Next200, Next400
<1>6. ASSUME NEW r \in Req, NEW k \in Key, NEW p \in BOOLEAN, Begin(r, k, p) PROVE EntryInv'
  BY <1>1, <1>6 DEF Begin
<1>7. CASE Tick \/ Wake \/ SweepLock \/ SweepUnlock \/ UNCHANGED vars
  BY <1>1, <1>7 DEF Tick, Wake, SweepLock, SweepUnlock, vars
<1>8. ASSUME NEW k \in Key, SweepOne(k) PROVE EntryInv'
  BY <1>8, DeleteEntryInv DEF SweepOne
<1> QED
  BY <1>2, <1>3, <1>4, <1>5, <1>6, <1>7, <1>8 DEF Next, Step, SweepStep, TakesLock, Runs

\* The cache never holds more than MaxEntries entries, whatever the interleaving
\* of requests, evictions and sweeps.
THEOREM EntriesStayBounded == Spec => []EntriesBounded
<1>1. Init => EntryInv
  <2> SUFFICES ASSUME Init PROVE EntryInv
    OBVIOUS
  <2>1. DOMAIN store = {}
    BY DEF Init
  <2> QED
    BY <2>1, FS_EmptySet DEF EntryInv, EntriesBounded
<1>2. Spec => []EntryInv
  BY <1>1, InitType, NextType, NextEntry, PTL DEF Spec
<1> QED
  BY <1>2, PTL DEF EntryInv

-----------------------------------------------------------------------------
(* Expiry, keys and privacy                                                *)

\* An entry under k answers k, is public unless private ones are allowed, and
\* expires no later than Expiration after it was made.
Good(k, e) ==
  /\ e.response.key = k
  /\ ~AllowPrivateResponses => ~e.response.private
  /\ e.exp <= e.response.born + Expiration

\* What a request in the middleware knows; the clocks read lie in the past.
RequestInv ==
  /\ sweep.now <= clock
  /\ \A r \in Req :
       /\ pc[r] # "idle" => req[r].now <= clock
       /\ pc[r] # "idle" /\ ~AllowPrivateResponses => ~req[r].private
       /\ pc[r] = "evict" => lock = r
       /\ pc[r] \in {"store", "evict"} =>
            /\ resp[r].key = req[r].key
            /\ resp[r].private = req[r].private
            /\ req[r].now <= resp[r].born
       /\ hit[r] => resp[r].key = req[r].key
       /\ hit[r] => req[r].now < resp[r].born + Expiration
       /\ hit[r] /\ ~AllowPrivateResponses => ~resp[r].private

CacheInv == TypeOK /\ RequestInv /\ \A k \in DOMAIN store : Good(k, store[k])

\* Taking entries away leaves good ones.
LEMMA DeleteGood ==
  ASSUME TypeOK, \A k \in DOMAIN store : Good(k, store[k]), NEW j \in DOMAIN store, Delete(j)
  PROVE  \A k \in DOMAIN store' : Good(k, store'[k])
BY DeleteFacts DEF Good

\* Every step keeps the entries good and what the requests know.
LEMMA NextCache == CacheInv /\ [Next]_vars => CacheInv'
<1> SUFFICES ASSUME CacheInv, [Next]_vars PROVE RequestInv' /\ \A k \in DOMAIN store' : Good(k, store'[k])
  BY NextType DEF CacheInv
<1> DEFINE AllGood == \A k \in DOMAIN store : Good(k, store[k])
<1> USE DEF CacheInv
<1>1. CASE Tick
  <2>1. AllGood'
    BY <1>1 DEF Tick, Good
  <2>2. clock' = clock + 1 /\ clock \in Int /\ sweep.now \in Int
    BY <1>1 DEF Tick, TypeOK, Time
  <2>3. \A r \in Req : pc[r] # "idle" => req[r].now \in Int
    BY DEF TypeOK, Request, Time
  <2>4. UNCHANGED <<pc, req, resp, hit, lock, sweep>>
    BY <1>1 DEF Tick
  <2>5. sweep.now <= clock' /\ \A r \in Req : pc[r] # "idle" => req[r].now <= clock'
    BY <2>2, <2>3 DEF RequestInv
  <2> QED
    BY <2>1, <2>4, <2>5 DEF RequestInv
<1>2. ASSUME NEW r \in Req, NEW k \in Key, NEW p \in BOOLEAN, Begin(r, k, p)
      PROVE RequestInv' /\ AllGood'
  <2>1. AllGood'
    BY <1>2 DEF Begin, Good
  <2>2. req'[r].now = clock /\ (~AllowPrivateResponses => ~req'[r].private) /\ clock \in Int
    BY <1>2, AllowAssumption DEF Begin, TypeOK, Time
  <2> QED
    BY <1>2, <2>1, <2>2 DEF Begin, Goto, RequestInv, TypeOK
<1>3. ASSUME NEW r \in Req, Hit(r) PROVE RequestInv' /\ AllGood'
  <2>1. AllGood'
    BY <1>3 DEF Hit, Good
  <2> DEFINE e == store[req[r].key]
  <2>2. /\ e \in Entry /\ req[r] \in Request
        /\ req[r].now < e.exp
        /\ Good(req[r].key, e)
    BY <1>3 DEF Hit, Goto, TypeOK, Entry, Request, Time
  <2>3. resp'[r] = e.response
    BY <1>3 DEF Hit, TypeOK
  <2>4. req[r].now < e.response.born + Expiration
    BY <2>2 DEF Good, Entry, Response, Request, Time
  <2>5. /\ resp'[r].key = req[r].key
        /\ req[r].now < resp'[r].born + Expiration
        /\ ~AllowPrivateResponses => ~resp'[r].private
    BY <2>2, <2>3, <2>4 DEF Good
  <2> HIDE DEF e
  <2> QED
    BY <1>3, <2>1, <2>5 DEF Hit, Goto, RequestInv, TypeOK
<1>4. ASSUME NEW r \in Req, Miss(r) PROVE RequestInv' /\ AllGood'
  BY <1>4 DEF Miss, Goto, Good, RequestInv, TypeOK
<1>5. ASSUME NEW r \in Req, DropStale(r) PROVE RequestInv' /\ AllGood'
  <2>1. AllGood'
    <3>1. CASE req[r].key \in DOMAIN store /\ Delete(req[r].key)
      BY <3>1, DeleteGood
    <3>2. CASE UNCHANGED store
      BY <3>2 DEF Good
    <3> QED
      BY <1>5, <3>1, <3>2 DEF DropStale
  <2> QED
    BY <1>5, <2>1 DEF DropStale, Goto, RequestInv, TypeOK
<1>6. ASSUME NEW r \in Req, Next200(r) PROVE RequestInv' /\ AllGood'
  <2>1. AllGood'
    BY <1>6 DEF Next200, Good
  <2>2. /\ resp'[r].key = req[r].key /\ resp'[r].private = req[r].private
        /\ resp'[r].born = clock
        /\ ~hit[r] /\ pc[r] = "next"
    BY <1>6 DEF Next200, Goto, TypeOK
  <2>3. \A q \in Req \ {r} : resp'[q] = resp[q] /\ pc'[q] = pc[q]
    BY <1>6 DEF Next200, Goto, TypeOK
  <2>4. pc'[r] = "store"
    BY <1>6 DEF Next200, Goto, TypeOK
  <2>5. UNCHANGED <<clock, lock, req, hit, sweep>>
    BY <1>6 DEF Next200
  <2>6. req[r].now <= resp'[r].born
    BY <2>2 DEF RequestInv
  <2> QED
    BY <2>1, <2>2, <2>3, <2>4, <2>5, <2>6 DEF RequestInv
<1>7. ASSUME NEW r \in Req, Next400(r) PROVE RequestInv' /\ AllGood'
  <2>1. AllGood'
    BY <1>7 DEF Next400, Good
  <2> QED
    BY <1>7, <2>1 DEF Next400, Goto, Forget, RequestInv, TypeOK
<1>8. ASSUME NEW r \in Req, Lock(r) PROVE RequestInv' /\ AllGood'
  <2>1. AllGood'
    BY <1>8 DEF Lock, Good
  <2> QED
    BY <1>8, <2>1 DEF Lock, Goto, RequestInv, TypeOK
<1>9. ASSUME NEW r \in Req, EvictOne(r) PROVE RequestInv' /\ AllGood'
  <2>1. PICK k \in DOMAIN store : Delete(k)
    BY <1>9 DEF EvictOne, Victims
  <2>2. AllGood'
    BY <2>1, DeleteGood
  <2> QED
    BY <1>9, <2>2 DEF EvictOne, RequestInv
<1>10. ASSUME NEW r \in Req, Put(r) PROVE RequestInv' /\ AllGood'
  <2> DEFINE e == [response |-> resp[r], exp |-> req[r].now + Expiration]
             k == req[r].key
  <2>1. pc[r] = "evict" /\ req[r] \in Request /\ resp[r] \in Response /\ ~hit[r]
    BY <1>10 DEF Put, TypeOK
  <2>2. Good(k, e)
    <3>1. resp[r].key = k /\ (~AllowPrivateResponses => ~resp[r].private)
      BY <2>1 DEF RequestInv
    <3>2. req[r].now \in Int /\ resp[r].born \in Int /\ req[r].now <= resp[r].born
      BY <2>1 DEF RequestInv, Request, Response, Time
    <3>3. req[r].now + Expiration <= resp[r].born + Expiration
      BY <3>2
    <3> QED
      BY <3>1, <3>3 DEF Good
  <2>3. /\ DOMAIN store' = DOMAIN store \cup {k}
        /\ \A j \in DOMAIN store' : store'[j] = IF j = k THEN e ELSE store[j]
    BY <1>10 DEF Put, PutEntry
  <2> HIDE DEF e, k
  <2>4. AllGood'
    <3> SUFFICES ASSUME NEW j \in DOMAIN store' PROVE Good(j, store'[j])
      BY DEF Good
    <3> QED
      BY <2>2, <2>3
  <2>5. \A q \in Req \ {r} : pc'[q] = pc[q] /\ req'[q] = req[q] /\ resp'[q] = resp[q]
    BY <1>10 DEF Put, PutEntry, Goto, Forget, TypeOK
  <2>6. pc'[r] = "idle" /\ UNCHANGED <<clock, hit, sweep>> /\ lock = r
    BY <1>10, <2>1 DEF Put, PutEntry, Goto, TypeOK, RequestInv
  <2>7. \A q \in Req \ {r} : pc[q] # "evict"
    BY <2>6 DEF RequestInv
  <2>8. RequestInv'
    BY <2>1, <2>5, <2>6, <2>7 DEF RequestInv
  <2> QED
    BY <2>4, <2>8
<1>11. CASE SweepStep
  <2>1. CASE Wake
    BY <2>1 DEF Wake, Good, RequestInv, TypeOK, Time
  <2>2. CASE SweepLock
    BY <2>2 DEF SweepLock, Good, RequestInv
  <2>3. ASSUME NEW k \in Key, SweepOne(k) PROVE RequestInv' /\ AllGood'
    <3>1. AllGood'
      BY <2>3, DeleteGood DEF SweepOne
    <3> QED
      BY <2>3, <3>1 DEF SweepOne, RequestInv
  <2>4. CASE SweepUnlock
    BY <2>4 DEF SweepUnlock, Good, RequestInv
  <2> QED
    BY <1>11, <2>1, <2>2, <2>3, <2>4 DEF SweepStep
<1>12. CASE UNCHANGED vars
  BY <1>12 DEF vars, Good, RequestInv
<1> QED
  BY <1>1, <1>2, <1>3, <1>4, <1>5, <1>6, <1>7, <1>8, <1>9, <1>10, <1>11, <1>12
  DEF Next, Step, TakesLock, Runs

\* The invariant of expiry, keys and privacy holds in every reachable state.
THEOREM Invariance == Spec => []CacheInv
<1>1. Init => CacheInv
  BY InitType DEF Init, CacheInv, RequestInv
<1> QED
  BY <1>1, NextCache, PTL DEF Spec

\* A hit answers the request's own key with a response made less than Expiration
\* before the request looked.
THEOREM HitsFresh == Spec => []HitFresh
<1>1. CacheInv => HitFresh
  <2> SUFFICES ASSUME RequestInv, NEW r \in Req, hit[r]
               PROVE  resp[r].key = req[r].key /\ req[r].now < resp[r].born + Expiration
    BY DEF CacheInv, HitFresh
  <2> QED
    BY DEF RequestInv
<1> QED
  BY Invariance, <1>1, PTL

\* Responses to requests with credentials are neither kept nor served.
THEOREM NothingPrivate == Spec => []NoPrivate
<1>1. CacheInv => NoPrivate
  <2> SUFFICES ASSUME CacheInv, ~AllowPrivateResponses PROVE NoPrivate
    BY DEF NoPrivate
  <2>1. \A k \in DOMAIN store : ~store[k].response.private
    BY DEF CacheInv, Good
  <2>2. \A r \in Req : hit[r] => ~resp[r].private
    BY DEF CacheInv, RequestInv
  <2> QED
    BY <2>1, <2>2 DEF NoPrivate
<1> QED
  BY Invariance, <1>1, PTL

\* A live entry leaves the store only inside the section of a request that makes
\* room: a request that saw an older entry, or the sweep, cannot remove it.
THEOREM LiveEntriesStay == Spec => LiveEntryStays
<1> DEFINE Stays == \A k \in DOMAIN store \ DOMAIN store' : store[k].exp <= clock \/ lock \in Req
<1>1. CacheInv /\ [Next]_vars => [Stays]_vars
  <2> SUFFICES ASSUME CacheInv, [Next]_vars, NEW k \in DOMAIN store \ DOMAIN store'
               PROVE  store[k].exp <= clock \/ lock \in Req
    OBVIOUS
  <2> USE DEF CacheInv
  <2>1. \A j \in DOMAIN store : store[j].exp \in Nat
    BY DEF TypeOK, Entry
  <2>2. ASSUME NEW r \in Req, DropStale(r) PROVE store[k].exp <= clock
    <3>1. k = req[r].key /\ store[k].exp <= req[r].now
      BY <2>2, DeleteFacts DEF DropStale
    <3>2. pc[r] # "idle"
      BY <2>2 DEF DropStale, Goto
    <3>3. req[r].now <= clock /\ req[r] \in Request
      BY <3>2 DEF RequestInv, TypeOK
    <3> QED
      BY <2>1, <3>1, <3>3 DEF TypeOK, Time, Request
  <2>3. ASSUME NEW r \in Req, EvictOne(r) \/ Put(r) PROVE lock \in Req
    BY <2>3 DEF EvictOne, Put, RequestInv
  <2>4. ASSUME NEW j \in Key, SweepOne(j) PROVE store[k].exp <= clock
    <3>1. k = j /\ store[k].exp < sweep.now /\ sweep.now <= clock
      BY <2>4, DeleteFacts DEF SweepOne, RequestInv
    <3> QED
      BY <2>1, <3>1 DEF TypeOK, Time
  <2>5. UNCHANGED store => FALSE
    OBVIOUS
  <2> QED
    BY <2>2, <2>3, <2>4, <2>5
    DEF Next, Step, TakesLock, Runs, SweepStep, vars, Tick, Begin, Hit, Miss, Lock, Next200,
        Next400, Wake, SweepLock, SweepUnlock
<1> QED
  BY <1>1, Invariance, PTL DEF Spec, LiveEntryStays

-----------------------------------------------------------------------------
(* The counter of bytes                                                    *)

\* An entry takes as many bytes as its size says.
LEMMA OwnBytes ==
  ASSUME NEW k, NEW n \in Nat
  PROVE  IsFiniteSet({k} \X (1 .. n)) /\ Cardinality({k} \X (1 .. n)) = n
<1>1. IsFiniteSet({k}) /\ Cardinality({k}) = 1
  BY FS_Singleton
<1>2. IsFiniteSet(1 .. n) /\ Cardinality(1 .. n) = IF 1 > n THEN 0 ELSE n - 1 + 1
  <2>1. 1 \in Int /\ n \in Int
    OBVIOUS
  <2> QED
    BY <2>1, FS_Interval
<1>3. Cardinality(1 .. n) = n
  BY <1>2
<1>4. /\ IsFiniteSet({k} \X (1 .. n))
      /\ Cardinality({k} \X (1 .. n)) = Cardinality({k}) * Cardinality(1 .. n)
  BY <1>1, <1>2, FS_Product
<1> QED
  BY <1>1, <1>3, <1>4

\* One entry's bytes and those of the others make up the whole.
LEMMA BytesSplit ==
  ASSUME NEW e, NEW k \in DOMAIN e, NEW w, e[k].response.size \in Nat,
         w = [j \in DOMAIN e \ {k} |-> e[j]], IsFiniteSet(BytesOf(w))
  PROVE  /\ IsFiniteSet(BytesOf(e))
         /\ Cardinality(BytesOf(e)) = Cardinality(BytesOf(w)) + e[k].response.size
<1> DEFINE n == e[k].response.size
           own == {k} \X (1 .. n)
<1>1. BytesOf(e) = BytesOf(w) \cup own
  <2>1. DOMAIN e = DOMAIN w \cup {k} /\ \A j \in DOMAIN w : w[j] = e[j]
    OBVIOUS
  <2> QED
    BY <2>1 DEF BytesOf
<1>2. BytesOf(w) \cap own = {}
  BY DEF BytesOf
<1>3. n \in Nat
  OBVIOUS
<1> HIDE DEF n
<1>4. IsFiniteSet(own) /\ Cardinality(own) = n
  BY <1>3, OwnBytes
<1> HIDE DEF own
<1>5. Cardinality(BytesOf(w)) \in Nat
  BY FS_CardinalityType
<1>6. /\ IsFiniteSet(BytesOf(w) \cup own)
      /\ Cardinality(BytesOf(w) \cup own)
           = Cardinality(BytesOf(w)) + Cardinality(own) - Cardinality(BytesOf(w) \cap own)
  BY <1>4, FS_Union
<1>7. Cardinality(BytesOf(w) \cap own) = 0
  BY <1>2, FS_EmptySet
<1> QED
  BY <1>1, <1>3, <1>4, <1>5, <1>6, <1>7 DEF n

\* Taking an entry away leaves the bytes of the others.
LEMMA BytesWithout ==
  ASSUME TypeOK, IsFiniteSet(BytesOf(store)), NEW k \in DOMAIN store
  PROVE  /\ store[k].response.size \in Nat
         /\ IsFiniteSet(BytesOf(Without(k))) /\ Cardinality(BytesOf(Without(k))) \in Nat
         /\ Bytes = Cardinality(BytesOf(Without(k))) + store[k].response.size
<1>1. store[k].response.size \in Nat
  BY DEF TypeOK, Entry, Response
<1>2. BytesOf(Without(k)) \subseteq BytesOf(store)
  BY DEF BytesOf, Without
<1>3. IsFiniteSet(BytesOf(Without(k))) /\ Cardinality(BytesOf(Without(k))) \in Nat
  BY <1>2, FS_Subset, FS_CardinalityType
<1> QED
  BY <1>1, <1>3, BytesSplit DEF Without, Bytes

\* The counter is behind the entries also while a request makes room for its own
\* entry: what it is about to replace is taken off already.
ByteInv ==
  /\ IsFiniteSet(BytesOf(store))
  /\ NeverOvercounts
  /\ \A r \in Req : pc[r] = "evict" => totalBytes <= Cardinality(BytesOf(Without(req[r].key)))

\* Taking a size off both sides.
LEMMA LessBelow ==
  ASSUME totalBytes \in Nat, NEW n \in Nat, NEW b \in Nat, totalBytes <= b + n
  PROVE  Less(n) <= b /\ Less(n) <= totalBytes
BY DEF Less

\* Deletion keeps the counter behind, inside and outside of the eviction loop.
LEMMA DeleteBytes ==
  ASSUME TypeOK, ByteInv, NEW k \in DOMAIN store, Delete(k), UNCHANGED <<pc, req>>
  PROVE  ByteInv'
<1>1. /\ store[k].response.size \in Nat
      /\ IsFiniteSet(BytesOf(Without(k))) /\ Cardinality(BytesOf(Without(k))) \in Nat
      /\ Bytes = Cardinality(BytesOf(Without(k))) + store[k].response.size
  BY BytesWithout DEF ByteInv
<1>2. store' = Without(k) /\ totalBytes' = Less(store[k].response.size) /\ totalBytes \in Nat
  BY DEF Delete, TypeOK
<1>3. totalBytes' <= Cardinality(BytesOf(Without(k))) /\ totalBytes' <= totalBytes
  BY <1>1, <1>2, LessBelow DEF ByteInv, NeverOvercounts
<1>4. totalBytes' \in Nat
  BY DeleteFacts
<1>5. IsFiniteSet(BytesOf(store')) /\ NeverOvercounts'
  BY <1>1, <1>2, <1>3 DEF NeverOvercounts, Bytes
<1>6. ASSUME NEW r \in Req, pc[r] = "evict"
      PROVE  totalBytes' <= Cardinality(BytesOf(Without(req[r].key)'))
  <2> DEFINE own == req[r].key
             rest == Without(own)
             left == [j \in DOMAIN store' \ {own} |-> store'[j]]
  <2>0. Without(req[r].key)' = left
    BY DEF Without
  <2>1. totalBytes <= Cardinality(BytesOf(rest))
    BY <1>6 DEF ByteInv
  <2>2. CASE k = own
    <3>1. left = rest
      BY <1>2, <2>2 DEF Without
    <3>2. Cardinality(BytesOf(rest)) \in Nat
      BY <1>1, <2>2
    <3> HIDE DEF left, rest
    <3> QED
      BY <1>2, <1>3, <1>4, <2>0, <2>1, <3>1, <3>2
  <2>3. CASE k # own
    <3>1. k \in DOMAIN rest /\ rest[k] = store[k] /\ left = [j \in DOMAIN rest \ {k} |-> rest[j]]
      BY <1>2, <2>3 DEF Without
    <3>2. BytesOf(left) \subseteq BytesOf(store)
      <4>1. DOMAIN left \subseteq DOMAIN store /\ \A j \in DOMAIN left : left[j] = store[j]
        BY <1>2 DEF Without
      <4> HIDE DEF left
      <4> QED
        BY <4>1 DEF BytesOf
    <3> HIDE DEF left, rest
    <3>3. IsFiniteSet(BytesOf(left)) /\ Cardinality(BytesOf(left)) \in Nat
      BY <3>2, FS_Subset, FS_CardinalityType DEF ByteInv
    <3>4. Cardinality(BytesOf(rest)) = Cardinality(BytesOf(left)) + store[k].response.size
      BY <1>1, <3>1, <3>3, BytesSplit
    <3> QED
      BY <1>1, <1>2, <2>0, <2>1, <3>3, <3>4, LessBelow
  <2> QED
    BY <2>2, <2>3
<1> QED
  BY <1>5, <1>6 DEF ByteInv

\* Storing an entry counts it once, with the entry it replaces taken off.
LEMMA PutBytes ==
  ASSUME TypeOK, RequestInv, ByteInv, NEW r \in Req, Put(r)
  PROVE  ByteInv'
<1> DEFINE k == req[r].key
           n == resp[r].size
<1>1. /\ pc[r] = "evict" /\ pc' = [pc EXCEPT ![r] = "idle"]
      /\ store' = [j \in DOMAIN store \cup {k} |->
                     IF j = k THEN [response |-> resp[r], exp |-> req[r].now + Expiration]
                              ELSE store[j]]
      /\ totalBytes' = totalBytes + n
  BY DEF Put, PutEntry, Goto
<1>2. totalBytes \in Nat /\ n \in Nat
  BY <1>1 DEF TypeOK, Response
<1>3. k \in DOMAIN store' /\ store'[k].response.size = n
      /\ Without(k) = [j \in DOMAIN store' \ {k} |-> store'[j]]
  BY <1>1 DEF Without
<1>4. totalBytes <= Cardinality(BytesOf(Without(k)))
  BY <1>1 DEF ByteInv
<1>5. IsFiniteSet(BytesOf(Without(k))) /\ Cardinality(BytesOf(Without(k))) \in Nat
  <2>1. BytesOf(Without(k)) \subseteq BytesOf(store)
    BY DEF BytesOf, Without
  <2> QED
    BY <2>1, FS_Subset, FS_CardinalityType DEF ByteInv
<1> HIDE DEF k, n
<1>6. /\ IsFiniteSet(BytesOf(store'))
      /\ Cardinality(BytesOf(store')) = Cardinality(BytesOf(Without(k))) + n
  BY <1>2, <1>3, <1>5, BytesSplit
<1>7. NeverOvercounts'
  BY <1>1, <1>2, <1>4, <1>5, <1>6 DEF NeverOvercounts, Bytes
<1>8. \A q \in Req : pc'[q] # "evict"
  BY <1>1 DEF RequestInv, TypeOK
<1> QED
  BY <1>6, <1>7, <1>8 DEF ByteInv

LEMMA NextBytes == CacheInv /\ ByteInv /\ [Next]_vars => ByteInv'
<1> SUFFICES ASSUME CacheInv, ByteInv, [Next]_vars PROVE ByteInv'
  OBVIOUS
<1> USE DEF CacheInv
\* A step that leaves the entries and the counter alone and starts no eviction.
<1>1. ASSUME UNCHANGED <<store, totalBytes>>,
             \A r \in Req : pc'[r] = "evict" => pc[r] = "evict" /\ req'[r] = req[r]
      PROVE  ByteInv'
  <2>1. \A k : Without(k)' = Without(k)
    BY <1>1 DEF Without
  <2> QED
    BY <1>1, <2>1 DEF ByteInv, NeverOvercounts, Bytes
<1>2. ASSUME NEW r \in Req, DropStale(r) PROVE ByteInv'
  <2>1. \A q \in Req : pc[q] # "evict" /\ pc'[q] # "evict"
    BY <1>2, NamesAssumption DEF DropStale, Goto, RequestInv, TypeOK
  <2>2. CASE req[r].key \in DOMAIN store /\ Delete(req[r].key)
    <3> DEFINE k == req[r].key
    <3>1. /\ store[k].response.size \in Nat
          /\ IsFiniteSet(BytesOf(Without(k))) /\ Cardinality(BytesOf(Without(k))) \in Nat
          /\ Bytes = Cardinality(BytesOf(Without(k))) + store[k].response.size
      BY <2>2, BytesWithout DEF ByteInv
    <3>2. store' = Without(k) /\ totalBytes' = Less(store[k].response.size) /\ totalBytes \in Nat
      BY <2>2 DEF Delete, TypeOK
    <3> HIDE DEF k
    <3> QED
      BY <2>1, <3>1, <3>2, LessBelow DEF ByteInv, NeverOvercounts, Bytes
  <2>3. CASE UNCHANGED <<store, totalBytes>>
    BY <1>1, <2>1, <2>3
  <2> QED
    BY <1>2, <2>2, <2>3 DEF DropStale
<1>3. ASSUME NEW r \in Req, Lock(r) PROVE ByteInv'
  <2> DEFINE k == req[r].key
  <2>1. /\ UNCHANGED <<store, req>> /\ pc' = [pc EXCEPT ![r] = "evict"] /\ totalBytes \in Nat
        /\ totalBytes' = IF k \in DOMAIN store THEN Less(store[k].response.size) ELSE totalBytes
        /\ \A q \in Req \ {r} : pc'[q] # "evict"
    BY <1>3 DEF Lock, Goto, RequestInv, TypeOK
  <2>2. \A j : Without(j)' = Without(j)
    BY <2>1 DEF Without
  <2>3. totalBytes' <= Bytes /\ totalBytes' <= Cardinality(BytesOf(Without(k)))
    <3>1. CASE k \in DOMAIN store
      <4>1. /\ store[k].response.size \in Nat /\ Cardinality(BytesOf(Without(k))) \in Nat
            /\ Bytes = Cardinality(BytesOf(Without(k))) + store[k].response.size
        BY <3>1, BytesWithout DEF ByteInv
      <4>2. totalBytes' = Less(store[k].response.size)
        BY <2>1, <3>1
      <4> HIDE DEF k
      <4> QED
        BY <2>1, <4>1, <4>2, LessBelow DEF ByteInv, NeverOvercounts
    <3>2. CASE k \notin DOMAIN store
      <4>1. BytesOf(Without(k)) = BytesOf(store)
        BY <3>2 DEF Without, BytesOf
      <4> HIDE DEF k
      <4> QED
        BY <2>1, <3>2, <4>1 DEF ByteInv, NeverOvercounts, Bytes
    <3> QED
      BY <3>1, <3>2
  <2>4. \A q \in Req : pc'[q] = "evict" => q = r
    BY <2>1
  <2> QED
    BY <2>1, <2>2, <2>3, <2>4 DEF ByteInv, NeverOvercounts, Bytes
<1>4. ASSUME NEW r \in Req, EvictOne(r) PROVE ByteInv'
  <2>1. PICK k \in DOMAIN store : Delete(k)
    BY <1>4 DEF EvictOne, Victims
  <2> QED
    BY <1>4, <2>1, DeleteBytes DEF EvictOne
<1>5. ASSUME NEW r \in Req, Put(r) PROVE ByteInv'
  BY <1>5, PutBytes
<1>6. ASSUME NEW k \in Key, SweepOne(k) PROVE ByteInv'
  BY <1>6, DeleteBytes DEF SweepOne
<1>7. ASSUME NEW r \in Req, Hit(r) \/ Miss(r) \/ Next200(r) \/ Next400(r) PROVE ByteInv'
  BY <1>1, <1>7 DEF Hit, Miss, Next200, Next400, Goto, Forget, TypeOK
<1>8. ASSUME NEW r \in Req, NEW k \in Key, NEW p \in BOOLEAN, Begin(r, k, p) PROVE ByteInv'
  BY <1>1, <1>8 DEF Begin, Goto, TypeOK
<1>9. CASE Tick \/ Wake \/ SweepLock \/ SweepUnlock \/ UNCHANGED vars
  BY <1>1, <1>9 DEF Tick, Wake, SweepLock, SweepUnlock, vars
<1> QED
  BY <1>2, <1>3, <1>4, <1>5, <1>6, <1>7, <1>8, <1>9
  DEF Next, Step, SweepStep, TakesLock, Runs

\* The counter never exceeds what the entries take, whatever the interleaving of
\* stale drops, replacements, evictions and sweeps: nothing is counted twice and
\* no byte stays counted once its entry has gone.
THEOREM CounterNeverAhead == Spec => []NeverOvercounts
<1>1. Init => ByteInv
  <2> SUFFICES ASSUME Init PROVE ByteInv
    OBVIOUS
  <2>1. BytesOf(store) = {} /\ totalBytes = 0 /\ \A r \in Req : pc[r] # "evict"
    BY DEF Init, BytesOf
  <2> QED
    BY <2>1, FS_EmptySet DEF ByteInv, NeverOvercounts, Bytes
<1>2. Spec => []ByteInv
  BY <1>1, Invariance, NextBytes, PTL DEF Spec
<1> QED
  BY <1>2, PTL DEF ByteInv

=============================================================================
