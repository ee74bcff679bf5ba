----------------------------- MODULE ServerProofs -----------------------------
(***************************************************************************)
(* A shutdown that returned without an error left nothing running, for any *)
(* number of muxes, servers, requests and callers.                         *)
(***************************************************************************)
EXTENDS Server, TLAPS

-----------------------------------------------------------------------------
(* Types                                                                   *)

LEMMA TypeInit == Init => TypeOK
BY ServerAssumption DEF Init, TypeOK, NoCall, NoServer, Server, Nobody, Main

\* What one call becomes while it runs, everything else about it unchanged.
LEMMA CallTyped ==
  ASSUME TypeOK, NEW c \in Caller,
         NEW pc \in {"close", "wait", "nil", "deadline"}, NEW i \in Server \cup {NoServer},
         \/ call' = [call EXCEPT ![c].pc = pc]
         \/ call' = [call EXCEPT ![c].pc = pc, ![c].server = i]
  PROVE  call' \in [Caller -> [pc : {"idle", "lock", "close", "wait", "nil", "deadline"},
                               mux : Mux, server : Server \cup {NoServer},
                               ctx : BOOLEAN, from : Request \cup {Main}]]
<1> DEFINE Calls == [pc : {"idle", "lock", "close", "wait", "nil", "deadline"},
                     mux : Mux, server : Server \cup {NoServer},
                     ctx : BOOLEAN, from : Request \cup {Main}]
<1>1. call \in [Caller -> Calls] /\ call[c] \in Calls
  BY DEF TypeOK
<1>2. call'[c] \in Calls
  <2>1. [call[c] EXCEPT !.pc = pc] \in Calls /\ [call[c] EXCEPT !.pc = pc, !.server = i] \in Calls
    BY <1>1
  <2> HIDE DEF Calls
  <2> QED
    BY <1>1, <2>1
<1> HIDE DEF Calls
<1>3. call' \in [Caller -> Calls]
  BY <1>1, <1>2
<1> QED
  BY <1>3 DEF Calls

\* Holding or releasing a mutex.
LEMMA MutexTyped ==
  ASSUME TypeOK, NEW c \in Caller, NEW h \in Caller \cup {Nobody},
         mu' = [mu EXCEPT ![call[c].mux] = h] \/ mu' = mu
  PROVE  mu' \in [Mux -> Caller \cup {Nobody, Copied}]
BY DEF TypeOK

LEMMA TypeNext == TypeOK /\ [Next]_vars => TypeOK'
<1> SUFFICES ASSUME TypeOK, [Next]_vars PROVE TypeOK'
  OBVIOUS
<1> USE DEF TypeOK
<1>1. ASSUME NEW m \in Mux, NEW n \in Mux, With(m, n) PROVE TypeOK'
  BY <1>1 DEF With
<1>2. ASSUME NEW m \in Mux, NEW i \in Server, Listen(m, i) PROVE TypeOK'
  BY <1>2 DEF Listen
<1>3. ASSUME NEW i \in Server, BindFails(i) \/ Bind(i) PROVE TypeOK'
  BY <1>3 DEF BindFails, Bind
<1>4. ASSUME NEW i \in Server, NEW r \in Request, Accept(i, r) \/ Finish(i, r) PROVE TypeOK'
  BY <1>4 DEF Accept, Finish
<1>5. ASSUME NEW c \in Caller, NEW m \in Mux, NEW ctx \in BOOLEAN,
             NEW from \in Request \cup {Main}, Call(c, m, ctx, from) PROVE TypeOK'
  BY <1>5 DEF Call
<1>6. ASSUME NEW c \in Caller, Progress(c) \/ Expire(c) PROVE TypeOK'
  <2> USE DEF Step, Unlock
  <2>1. call[c] \in [pc : {"idle", "lock", "close", "wait", "nil", "deadline"},
                     mux : Mux, server : Server \cup {NoServer},
                     ctx : BOOLEAN, from : Request \cup {Main}]
    OBVIOUS
  <2>2. active[call[c].mux] \in Server \cup {NoServer}
    BY <2>1
  <2>3. /\ call' \in [Caller -> [pc : {"idle", "lock", "close", "wait", "nil", "deadline"},
                                 mux : Mux, server : Server \cup {NoServer},
                                 ctx : BOOLEAN, from : Request \cup {Main}]]
        /\ mu' \in [Mux -> Caller \cup {Nobody, Copied}]
    <3> HIDE DEF TypeOK
    <3>1. CASE Lock(c)
      BY <2>2, <3>1, CallTyped, MutexTyped DEF Lock
    <3>2. CASE CloseNone(c)
      BY <3>2, CallTyped, MutexTyped DEF CloseNone
    <3>3. CASE Close(c)
      BY <3>3, CallTyped, MutexTyped DEF Close
    <3>4. CASE Drained(c)
      BY <3>4, CallTyped, MutexTyped DEF Drained
    <3>5. CASE Expire(c)
      BY <3>5, CallTyped, MutexTyped DEF Expire
    <3> QED
      BY <1>6, <3>1, <3>2, <3>3, <3>4, <3>5 DEF Progress
  <2>4. UNCHANGED <<made, active, open>>
    BY <1>6 DEF Progress, Lock, CloseNone, Close, Drained, Expire
  <2>5. server' \in [Server -> {"none", "recorded", "serving", "failed", "closed"}]
    BY <1>6 DEF Progress, Lock, CloseNone, Close, Drained, Expire
  <2> QED
    BY <2>3, <2>4, <2>5
<1>7. CASE UNCHANGED vars
  BY <1>7 DEF vars
<1> QED
  BY <1>1, <1>2, <1>3, <1>4, <1>5, <1>6, <1>7 DEF Next, Handler

\* Every server, mutex and call keeps its type.
THEOREM TypeCorrect == Spec => []TypeOK
BY TypeInit, TypeNext, PTL DEF Spec

-----------------------------------------------------------------------------
(* Draining                                                                *)

\* A shutdown that waits has closed its server; from then on nothing makes a
\* closed server accept, so the moment its last request ends lasts.
WaitsOnClosed ==
  \A c \in Caller : call[c].pc = "wait" =>
    call[c].server \in Server /\ server[call[c].server] = "closed"

\* A call looks up its server when it gets the mutex, not before.
LooksUpLocked ==
  \A c \in Caller : /\ call[c].pc \in {"idle", "lock"} => call[c].server = NoServer
                    /\ call[c].pc = "close" => call[c].server \in Server

CallsOrdered == LooksUpLocked /\ WaitsOnClosed /\ StaysDrained

DrainInv == TypeOK /\ CallsOrdered

LEMMA DrainInit == Init => CallsOrdered
BY DEF Init, CallsOrdered, LooksUpLocked, WaitsOnClosed, StaysDrained, NoCall, NoServer

\* A step that leaves the calls alone, and of the servers those that are closed.
LEMMA ClosedStays ==
  ASSUME DrainInv, UNCHANGED call,
         \A i \in Server : server[i] = "closed" =>
           server'[i] = "closed" /\ open'[i] \subseteq open[i]
  PROVE  CallsOrdered'
BY DEF DrainInv, TypeOK, CallsOrdered, LooksUpLocked, WaitsOnClosed, StaysDrained, NoServer

\* A step of one call; the others' servers stay as they are.
LEMMA OneCallMoves ==
  ASSUME DrainInv, NEW c \in Caller, UNCHANGED open,
         \A d \in Caller \ {c} : call'[d] = call[d],
         \A i \in Server : server[i] = "closed" => server'[i] = "closed",
         call'[c].pc \in {"idle", "lock"} => call'[c].server = NoServer,
         call'[c].pc = "close" => call'[c].server \in Server,
         call'[c].pc = "wait" => call'[c].server \in Server /\ server'[call'[c].server] = "closed",
         call'[c].pc = "nil" /\ call'[c].server # NoServer =>
           open[call'[c].server] = {} /\ server'[call'[c].server] = "closed"
  PROVE  CallsOrdered'
BY DEF DrainInv, TypeOK, CallsOrdered, LooksUpLocked, WaitsOnClosed, StaysDrained, NoServer

LEMMA DrainNext == DrainInv /\ [Next]_vars => CallsOrdered'
<1> SUFFICES ASSUME DrainInv, [Next]_vars PROVE CallsOrdered'
  OBVIOUS
<1> TypeOK
  BY DEF DrainInv
<1>1. ASSUME NEW m \in Mux, NEW n \in Mux, With(m, n) PROVE CallsOrdered'
  BY <1>1, ClosedStays DEF With
<1>2. ASSUME NEW m \in Mux, NEW i \in Server, Listen(m, i) PROVE CallsOrdered'
  <2>1. \A j \in Server : server[j] = "closed" => server'[j] = "closed"
    BY <1>2 DEF Listen, TypeOK
  <2> QED
    BY <1>2, <2>1, ClosedStays DEF Listen
<1>3. ASSUME NEW i \in Server, BindFails(i) \/ Bind(i) PROVE CallsOrdered'
  <2>1. \A j \in Server : server[j] = "closed" => server'[j] = "closed"
    BY <1>3 DEF BindFails, Bind, TypeOK
  <2> QED
    BY <1>3, <2>1, ClosedStays DEF BindFails, Bind
<1>4. ASSUME NEW i \in Server, NEW r \in Request, Accept(i, r) \/ Finish(i, r)
      PROVE  CallsOrdered'
  <2>1. \A j \in Server : server[j] = "closed" => open'[j] \subseteq open[j]
    BY <1>4 DEF Accept, Finish, TypeOK
  <2> QED
    BY <1>4, <2>1, ClosedStays DEF Accept, Finish
<1>5. ASSUME NEW c \in Caller, NEW m \in Mux, NEW ctx \in BOOLEAN,
             NEW from \in Request \cup {Main}, Call(c, m, ctx, from)
      PROVE  CallsOrdered'
  <2>1. call'[c].pc = "lock" /\ call'[c].server = NoServer /\ \A d \in Caller \ {c} : call'[d] = call[d]
    BY <1>5 DEF Call, TypeOK
  <2> QED
    BY <1>5, <2>1, OneCallMoves DEF Call
<1>6. ASSUME NEW c \in Caller, Lock(c) PROVE CallsOrdered'
  <2>1. \A d \in Caller \ {c} : call'[d] = call[d]
    BY <1>6 DEF Lock, Step, TypeOK
  <2>2. CASE active[call[c].mux] = NoServer
    <3>1. call'[c].pc = "nil" /\ call'[c].server = NoServer
      BY <1>6, <2>2 DEF Lock, Step, TypeOK, DrainInv, CallsOrdered, LooksUpLocked
    <3> QED
      BY <1>6, <2>1, <3>1, OneCallMoves DEF Lock
  <2>3. CASE active[call[c].mux] # NoServer
    <3>1. call'[c].pc = "close" /\ call'[c].server \in Server
      BY <1>6, <2>3 DEF Lock, TypeOK
    <3> QED
      BY <1>6, <2>1, <3>1, OneCallMoves DEF Lock
  <2> QED
    BY <2>2, <2>3
<1>7. ASSUME NEW c \in Caller, CloseNone(c) PROVE CallsOrdered'
  <2>1. call'[c].pc = "nil" /\ call'[c].server = NoServer
        /\ \A d \in Caller \ {c} : call'[d] = call[d]
    BY <1>7 DEF CloseNone, TypeOK
  <2> QED
    BY <1>7, <2>1, OneCallMoves DEF CloseNone
<1>8. ASSUME NEW c \in Caller, Close(c) PROVE CallsOrdered'
  <2>1. call'[c].pc = "wait" /\ call'[c].server = call[c].server
        /\ \A d \in Caller \ {c} : call'[d] = call[d]
    BY <1>8 DEF Close, Step, TypeOK
  <2>2. call[c].server \in Server /\ server' = [server EXCEPT ![call[c].server] = "closed"]
        /\ server'[call[c].server] = "closed"
        /\ \A i \in Server : server[i] = "closed" => server'[i] = "closed"
    BY <1>8 DEF Close, DrainInv, CallsOrdered, LooksUpLocked, TypeOK
  <2> QED
    BY <1>8, <2>1, <2>2, OneCallMoves DEF Close
<1>9. ASSUME NEW c \in Caller, Drained(c) PROVE CallsOrdered'
  <2>1. call'[c].pc = "nil" /\ call'[c].server = call[c].server
        /\ \A d \in Caller \ {c} : call'[d] = call[d]
    BY <1>9 DEF Drained, Step, TypeOK
  <2> QED
    BY <1>9, <2>1, OneCallMoves DEF Drained, DrainInv, CallsOrdered, WaitsOnClosed
<1>10. ASSUME NEW c \in Caller, Expire(c) PROVE CallsOrdered'
  <2>1. call'[c].pc = "deadline" /\ \A d \in Caller \ {c} : call'[d] = call[d]
    BY <1>10 DEF Expire, Step, TypeOK
  <2> QED
    BY <1>10, <2>1, OneCallMoves DEF Expire
<1>11. CASE UNCHANGED vars
  BY <1>11, ClosedStays DEF vars
<1> QED
  BY <1>1, <1>2, <1>3, <1>4, <1>5, <1>6, <1>7, <1>8, <1>9, <1>10, <1>11
  DEF Next, Handler, Progress

\* mux.go Shutdown, README.md:626: a shutdown that stopped a server and returned
\* nil leaves none of its requests running, then or later.
THEOREM Drains == Spec => []StaysDrained
<1>1. Init => DrainInv
  BY TypeInit, DrainInit DEF DrainInv
<1>2. DrainInv /\ [Next]_vars => DrainInv'
  BY TypeNext, DrainNext DEF DrainInv
<1>3. DrainInv => StaysDrained
  BY DEF DrainInv, CallsOrdered
<1> QED
  BY <1>1, <1>2, <1>3, PTL DEF Spec
===============================================================================
