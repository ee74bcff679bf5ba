-------------------------------- MODULE Server --------------------------------
(***************************************************************************)
(* Listening and shutting down (mux.go, fasthttpserver.go).  Every Listen  *)
(* makes a server and records it as the mux's active one, then binds its   *)
(* address and serves; a shutdown looks the active server up and waits, all *)
(* under the mux's serverMu.  With and Group copy a mux by value, the active*)
(* server and the mutex in whatever state it is included.  fasthttp is     *)
(* modelled from how it is used: a shutdown closes the listener of a server*)
(* that serves and waits for its open requests; on any other it is a no-op. *)
(***************************************************************************)
EXTENDS Naturals

CONSTANTS
  Mux,        \* the router and those With and Group derive from it
  Root,       \* the one NewRouter returns
  Caller,     \* goroutines that call Shutdown or ShutdownWithContext
  Request,    \* requests
  MaxListens  \* bound on the calls to Listen

ASSUME ServerAssumption == Root \in Mux /\ MaxListens \in Nat

NoServer == 0
Nobody   == "nobody"
Copied   == "copied"   \* holder of a mutex that was copied while it was held
Main     == "main"     \* the caller of a shutdown that is no handler

Server == 1 .. MaxListens

VARIABLES
  made,    \* the muxes there are
  active,  \* each mux's activeServer
  mu,      \* who holds each mux's serverMu
  server,  \* each server: "none", "recorded", "serving", "failed", "closed"
  open,    \* the requests each server is handling
  call     \* each caller's shutdown

vars == <<made, active, mu, server, open, call>>

\* pc: "idle", "lock" (waits for serverMu), "close" (has it, before fasthttp),
\* "wait" (for the server's requests), "nil" and "deadline" (returned).
NoCall == [pc |-> "idle", mux |-> Root, server |-> NoServer, ctx |-> FALSE, from |-> Main]

Init ==
  /\ made = {Root}
  /\ active = [m \in Mux |-> NoServer]
  /\ mu = [m \in Mux |-> Nobody]
  /\ server = [i \in Server |-> "none"]
  /\ open = [i \in Server |-> {}]
  /\ call = [c \in Caller |-> NoCall]

-----------------------------------------------------------------------------
(* Muxes and servers                                                       *)

\* With, Group, Route: newMux := *s.
With(m, n) ==
  /\ m \in made /\ n \notin made
  /\ made' = made \cup {n}
  /\ active' = [active EXCEPT ![n] = active[m]]
  /\ mu' = [mu EXCEPT ![n] = IF mu[m] = Nobody THEN Nobody ELSE Copied]
  /\ UNCHANGED <<server, open, call>>

\* Listen, ListenTLS, ListenTLSMutual: a new server becomes the active one.
Listen(m, i) ==
  /\ m \in made /\ mu[m] = Nobody
  /\ server[i] = "none" /\ \A j \in Server : j < i => server[j] # "none"
  /\ server' = [server EXCEPT ![i] = "recorded"]
  /\ active' = [active EXCEPT ![m] = i]
  /\ UNCHANGED <<made, mu, open, call>>

\* The address is taken, or a certificate cannot be read.
BindFails(i) ==
  /\ server[i] = "recorded"
  /\ server' = [server EXCEPT ![i] = "failed"]
  /\ UNCHANGED <<made, active, mu, open, call>>

\* server.Serve(ln): the listener accepts from now on.
Bind(i) ==
  /\ server[i] = "recorded"
  /\ server' = [server EXCEPT ![i] = "serving"]
  /\ UNCHANGED <<made, active, mu, open, call>>

-----------------------------------------------------------------------------
(* Requests                                                                *)

\* Variant of Accept: a server whose listener is closed accepts what is queued.
AcceptQueued(i, r) ==
  /\ server[i] \in {"serving", "closed"} /\ \A j \in Server : r \notin open[j]
  /\ open' = [open EXCEPT ![i] = @ \cup {r}]
  /\ UNCHANGED <<made, active, mu, server, call>>

Accept(i, r) ==
  /\ server[i] = "serving" /\ \A j \in Server : r \notin open[j]
  /\ open' = [open EXCEPT ![i] = @ \cup {r}]
  /\ UNCHANGED <<made, active, mu, server, call>>

Returned(c) == call[c].pc \in {"idle", "nil", "deadline"}

\* A handler returns; not while it is in a shutdown that it called.
Finish(i, r) ==
  /\ r \in open[i] /\ \A c \in Caller : call[c].from = r => Returned(c)
  /\ open' = [open EXCEPT ![i] = @ \ {r}]
  /\ UNCHANGED <<made, active, mu, server, call>>

-----------------------------------------------------------------------------
(* Shutting down                                                           *)

Step(c, pc) == call' = [call EXCEPT ![c].pc = pc]

\* Shutdown or, with ctx, ShutdownWithContext; from a handler or elsewhere.
Call(c, m, ctx, from) ==
  /\ call[c].pc = "idle" /\ m \in made
  /\ from = Main \/ \E i \in Server : from \in open[i]
  /\ \A d \in Caller : call[d].from = from => from = Main \/ Returned(d)
  /\ call' = [call EXCEPT ![c] = [pc |-> "lock", mux |-> m, server |-> NoServer,
                                  ctx |-> ctx, from |-> from]]
  /\ UNCHANGED <<made, active, mu, server, open>>

\* Without an active server it returns at once.
Lock(c) ==
  /\ call[c].pc = "lock" /\ mu[call[c].mux] = Nobody
  /\ IF active[call[c].mux] = NoServer
       THEN Step(c, "nil") /\ UNCHANGED mu
       ELSE /\ call' = [call EXCEPT ![c].pc = "close", ![c].server = active[call[c].mux]]
            /\ mu' = [mu EXCEPT ![call[c].mux] = c]
  /\ UNCHANGED <<made, active, server, open>>

Unlock(c) == mu' = [mu EXCEPT ![call[c].mux] = Nobody]

\* A server that does not serve yet, or no longer: nothing to stop.
CloseNone(c) ==
  /\ call[c].pc = "close" /\ server[call[c].server] # "serving"
  /\ call' = [call EXCEPT ![c].pc = "nil", ![c].server = NoServer]
  /\ Unlock(c)
  /\ UNCHANGED <<made, active, server, open>>

\* The listener is closed; connections without a request are closed too.
Close(c) ==
  /\ call[c].pc = "close" /\ server[call[c].server] = "serving"
  /\ server' = [server EXCEPT ![call[c].server] = "closed"]
  /\ Step(c, "wait")
  /\ UNCHANGED <<made, active, mu, open>>

\* Variant of Drained: the mutex is kept.
DrainedLocked(c) ==
  /\ call[c].pc = "wait" /\ open[call[c].server] = {}
  /\ Step(c, "nil")
  /\ UNCHANGED <<made, active, mu, server, open>>

Drained(c) ==
  /\ call[c].pc = "wait" /\ open[call[c].server] = {}
  /\ Step(c, "nil") /\ Unlock(c)
  /\ UNCHANGED <<made, active, server, open>>

\* ctx.Done(); the requests go on.  Only here is the context looked at.
Expire(c) ==
  /\ call[c].pc = "wait" /\ call[c].ctx
  /\ Step(c, "deadline") /\ Unlock(c)
  /\ UNCHANGED <<made, active, server, open>>

-----------------------------------------------------------------------------
Progress(c) == Lock(c) \/ CloseNone(c) \/ Close(c) \/ Drained(c)

Handler == \E i \in Server, r \in Request : Accept(i, r) \/ Finish(i, r)

Next ==
  \/ \E m, n \in Mux : With(m, n)
  \/ \E m \in Mux, i \in Server : Listen(m, i)
  \/ \E i \in Server : Bind(i) \/ BindFails(i)
  \/ Handler
  \/ \E c \in Caller, m \in Mux, ctx \in BOOLEAN, from \in Request \cup {Main} :
       Call(c, m, ctx, from)
  \/ \E c \in Caller : Progress(c) \/ Expire(c)

\* Goroutines run, deadlines pass, and a handler returns unless it waits itself;
\* a mutex that is released again and again is not withheld for ever.
Fairness ==
  /\ \A c \in Caller : SF_vars(Progress(c)) /\ WF_vars(Expire(c))
  /\ \A i \in Server, r \in Request : WF_vars(Finish(i, r))

Spec == Init /\ [][Next]_vars

FairSpec == Spec /\ Fairness

-----------------------------------------------------------------------------
(* Properties                                                              *)

TypeOK ==
  /\ made \subseteq Mux /\ Root \in made
  /\ active \in [Mux -> Server \cup {NoServer}]
  /\ mu \in [Mux -> Caller \cup {Nobody, Copied}]
  /\ server \in [Server -> {"none", "recorded", "serving", "failed", "closed"}]
  /\ open \in [Server -> SUBSET Request]
  /\ call \in [Caller -> [pc : {"idle", "lock", "close", "wait", "nil", "deadline"},
                          mux : Mux, server : Server \cup {NoServer},
                          ctx : BOOLEAN, from : Request \cup {Main}]]

\* README.md:626 "The shutdown blocks until all active requests have completed":
\* a shutdown that stopped a server and returned without an error leaves none
\* of its requests running, then or later.
StaysDrained ==
  \A c \in Caller : call[c].pc = "nil" /\ call[c].server # NoServer =>
    open[call[c].server] = {} /\ server[call[c].server] = "closed"

\* The shutdown holds the mutex for its whole wait, so it blocks the next call.
\* That chain of waits is endless only if it comes to a handler that is itself
\* in a shutdown of the server that waits for it, or to a copied mutex.
Holds(c)       == call[c].pc \in {"close", "wait"}
WaitsForCaller == \E c, d \in Caller :
                    Holds(c) /\ ~call[c].ctx /\ call[d].from \in open[call[c].server]
                    /\ ~Returned(d)
LockCopied     == \E m \in Mux : mu[m] = Copied

ShutdownReturns ==
  \A c \in Caller : call[c].pc = "lock" ~> (Returned(c) \/ WaitsForCaller \/ LockCopied)
===============================================================================
