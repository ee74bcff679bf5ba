--------------------------- MODULE SessionRegistry ---------------------------
(***************************************************************************)
(* The websocket session registry of websocket/websocket.go: the upgrade   *)
(* handler of NewWithContextAndOptions, track and untrack, and             *)
(* DrainContext.  One Session is one upgrade request and the goroutine the *)
(* server starts for it once the connection is hijacked; one Drain is one  *)
(* call of DrainContext.                                                   *)
(*                                                                         *)
(* r.mu is held over a few map operations only, so a critical section is   *)
(* one action.  r.draining is an atomic.Bool read and written outside of   *)
(* r.mu, so each of its loads is an action of its own.                     *)
(***************************************************************************)
EXTENDS FiniteSets

CONSTANTS
  Session,   \* upgrade requests, each with the session it may become
  Drain      \* calls of DrainContext

VARIABLES
  draining,  \* r.draining
  sessions,  \* the keys of r.sessions
  pc,        \* where the request, then its session goroutine, is
  open,      \* whether the session's connection is open
  dpc,       \* where each call of DrainContext is
  current,   \* the snapshot `current` of each call
  todo,      \* the part of the snapshot not closed yet
  ctxDone    \* whether the context given to DrainContext is done

vars == <<draining, sessions, pc, open, dpc, current, todo, ctxDone>>

\* "request": at the top of the handler; "admitted": past the draining check;
\* "upgraded": Upgrade returned nil, the hijack handler has not begun;
\* "accepted": session built, about to call track; "tracking": track has read
\* draining = false; "running": inside the user's handler; "leaving": the
\* deferred function has begun; "closing": untracked; "turnedAway": track
\* returned false.
PC == {"request", "refused", "admitted", "upgraded", "accepted", "tracking",
       "running", "leaving", "closing", "turnedAway", "ended"}

\* "ok" and "ctxErr" are the two results of the final select.
DPC == {"idle", "marked", "sweeping", "swept", "ok", "ctxErr"}

TypeOK ==
  /\ draining \in BOOLEAN
  /\ sessions \subseteq Session
  /\ pc \in [Session -> PC]
  /\ open \in [Session -> BOOLEAN]
  /\ dpc \in [Drain -> DPC]
  /\ current \in [Drain -> SUBSET Session]
  /\ todo \in [Drain -> SUBSET Session]
  /\ ctxDone \in [Drain -> BOOLEAN]

Init ==
  /\ draining = FALSE
  /\ sessions = {}
  /\ pc = [s \in Session |-> "request"]
  /\ open = [s \in Session |-> FALSE]
  /\ dpc = [d \in Drain |-> "idle"]
  /\ current = [d \in Drain |-> {}]
  /\ todo = [d \in Drain |-> {}]
  /\ ctxDone = [d \in Drain |-> FALSE]

drainVars == <<dpc, current, todo, ctxDone>>

Goto(s, from, to) ==
  /\ pc[s] = from
  /\ pc' = [pc EXCEPT ![s] = to]

DGoto(d, from, to) ==
  /\ dpc[d] = from
  /\ dpc' = [dpc EXCEPT ![d] = to]

-----------------------------------------------------------------------------
(* Wrong variants of the actions below, each a bug the properties must     *)
(* reveal.  No action of the specification uses them.                      *)

\* Nothing refuses an upgrade while the registry drains.
CheckDrainingIgnored(s) ==
  /\ Goto(s, "request", "admitted")
  /\ UNCHANGED <<draining, sessions, open, drainVars>>

\* The deferred function forgets to delete the session.
UntrackForgotten(s) ==
  /\ Goto(s, "leaving", "closing")
  /\ UNCHANGED <<draining, sessions, open, drainVars>>

\* The map is replaced in the critical section that copies it.
SnapshotAndReset(d) ==
  /\ DGoto(d, "marked", "sweeping")
  /\ current' = [current EXCEPT ![d] = sessions]
  /\ todo' = [todo EXCEPT ![d] = sessions]
  /\ sessions' = {}
  /\ UNCHANGED <<draining, pc, open, ctxDone>>

\* The loop over `current` closes nothing.
CloseOneSkipped(d) ==
  /\ dpc[d] = "sweeping"
  /\ \E s \in todo[d] : todo' = [todo EXCEPT ![d] = @ \ {s}]
  /\ UNCHANGED <<draining, sessions, pc, open, dpc, current, ctxDone>>

\* The loop is left before its end.
ResetSessionsEarly(d) ==
  /\ DGoto(d, "sweeping", "swept")
  /\ sessions' = {}
  /\ UNCHANGED <<draining, pc, open, current, todo, ctxDone>>

\* The select has no default case.
ReturnOnDone(d) ==
  /\ ctxDone[d]
  /\ DGoto(d, "swept", "ctxErr")
  /\ UNCHANGED <<draining, sessions, pc, open, current, todo, ctxDone>>

-----------------------------------------------------------------------------
(* The upgrade handler and the hijacked session                            *)

\* opts.Registry.IsDraining() decides between 503 and going on.
CheckDraining(s) ==
  /\ Goto(s, "request", IF draining THEN "refused" ELSE "admitted")
  /\ UNCHANGED <<draining, sessions, open, drainVars>>

\* Not an upgrade request, handshake validation failed, or Upgrade failed: an
\* HTTP error is answered and nothing is tracked.
FailHandshake(s) ==
  /\ Goto(s, "admitted", "refused")
  /\ UNCHANGED <<draining, sessions, open, drainVars>>

\* c.Copy() and a successful upgrader.Upgrade: the connection is hijacked, the
\* handler returns, the session function has still to be called.
Upgrade(s) ==
  /\ Goto(s, "admitted", "upgraded")
  /\ UNCHANGED <<draining, sessions, open, drainVars>>

\* The server fails to write the 101 response: it never calls the hijack
\* handler.
LoseUpgrade(s) ==
  /\ Goto(s, "upgraded", "refused")
  /\ UNCHANGED <<draining, sessions, open, drainVars>>

\* The server calls the hijack handler with the connection; it sets the limits
\* and deadlines and builds the Session.
Accept(s) ==
  /\ Goto(s, "upgraded", "accepted")
  /\ open' = [open EXCEPT ![s] = TRUE]
  /\ UNCHANGED <<draining, sessions, drainVars>>

\* track, first half: if r.draining.Load() { return false }.
TrackLoad(s) ==
  /\ Goto(s, "accepted", IF draining THEN "turnedAway" ELSE "tracking")
  /\ UNCHANGED <<draining, sessions, open, drainVars>>

\* track, second half: insert under r.mu; OnSessionStart, then the handler.
TrackInsert(s) ==
  /\ Goto(s, "tracking", "running")
  /\ sessions' = sessions \cup {s}
  /\ UNCHANGED <<draining, open, drainVars>>

\* track returned false: CloseWithReason(1013, ...) and return, without the
\* deferred function.
TurnAway(s) ==
  /\ Goto(s, "turnedAway", "ended")
  /\ open' = [open EXCEPT ![s] = FALSE]
  /\ UNCHANGED <<draining, sessions, drainVars>>

\* The user's handler returns, with or without an error.
HandlerReturn(s) ==
  /\ Goto(s, "running", "leaving")
  /\ UNCHANGED <<draining, sessions, open, drainVars>>

\* The deferred function: untrack under r.mu ...
Untrack(s) ==
  /\ Goto(s, "leaving", "closing")
  /\ sessions' = sessions \ {s}
  /\ UNCHANGED <<draining, open, drainVars>>

\* ... then OnSessionEnd and conn.Close().
CloseConn(s) ==
  /\ Goto(s, "closing", "ended")
  /\ open' = [open EXCEPT ![s] = FALSE]
  /\ UNCHANGED <<draining, sessions, drainVars>>

\* The peer or the network closes the connection.
Disconnect(s) ==
  /\ open[s]
  /\ open' = [open EXCEPT ![s] = FALSE]
  /\ UNCHANGED <<draining, sessions, pc, drainVars>>

-----------------------------------------------------------------------------
(* DrainContext                                                            *)

\* r.draining.Store(true).  Nothing ever stores false.
MarkDraining(d) ==
  /\ DGoto(d, "idle", "marked")
  /\ draining' = TRUE
  /\ UNCHANGED <<sessions, pc, open, current, todo, ctxDone>>

\* Under r.mu: copy the keys of r.sessions into `current`.
Snapshot(d) ==
  /\ DGoto(d, "marked", "sweeping")
  /\ current' = [current EXCEPT ![d] = sessions]
  /\ todo' = [todo EXCEPT ![d] = sessions]
  /\ UNCHANGED <<draining, sessions, pc, open, ctxDone>>

\* One turn of the loop over `current`, in any order: s.Close().
CloseOne(d) ==
  /\ dpc[d] = "sweeping"
  /\ \E s \in todo[d] :
       /\ todo' = [todo EXCEPT ![d] = @ \ {s}]
       /\ open' = [open EXCEPT ![s] = FALSE]
  /\ UNCHANGED <<draining, sessions, pc, dpc, current, ctxDone>>

\* Under r.mu: r.sessions = make(map[*Session]struct{}).
ResetSessions(d) ==
  /\ todo[d] = {}
  /\ DGoto(d, "sweeping", "swept")
  /\ sessions' = {}
  /\ UNCHANGED <<draining, pc, open, current, todo, ctxDone>>

\* The select: ctx.Err() if the context is done, nil otherwise.
Return(d) ==
  /\ DGoto(d, "swept", IF ctxDone[d] THEN "ctxErr" ELSE "ok")
  /\ UNCHANGED <<draining, sessions, pc, open, current, todo, ctxDone>>

\* The caller's context expires or is cancelled, while the call can still tell.
ExpireContext(d) ==
  /\ ~ctxDone[d] /\ dpc[d] \notin {"ok", "ctxErr"}
  /\ ctxDone' = [ctxDone EXCEPT ![d] = TRUE]
  /\ UNCHANGED <<draining, sessions, pc, open, dpc, current, todo>>

-----------------------------------------------------------------------------
SessionStep(s) ==
  \/ CheckDraining(s) \/ FailHandshake(s) \/ Upgrade(s) \/ LoseUpgrade(s)
  \/ Accept(s) \/ TrackLoad(s) \/ TrackInsert(s) \/ TurnAway(s)
  \/ Untrack(s) \/ CloseConn(s)

DrainStep(d) ==
  MarkDraining(d) \/ Snapshot(d) \/ CloseOne(d) \/ ResetSessions(d) \/ Return(d)

Next ==
  \/ \E s \in Session : SessionStep(s) \/ HandlerReturn(s) \/ Disconnect(s)
  \/ \E d \in Drain : DrainStep(d) \/ ExpireContext(d)

Spec == Init /\ [][Next]_vars

\* Every goroutine that can go on does, which is the Go scheduler's promise; a
\* user's handler is only assumed to return once its connection is closed, as
\* the handlers of docs/websockets.md do on a read error.  Nobody has to call
\* DrainContext, and no connection or context has to fail.
Fairness ==
  /\ \A s \in Session : WF_vars(SessionStep(s))
  /\ \A s \in Session : WF_vars(~open[s] /\ HandlerReturn(s))
  /\ \A d \in Drain : WF_vars(dpc[d] # "idle" /\ DrainStep(d))

FairSpec == Spec /\ Fairness

-----------------------------------------------------------------------------
(* Properties                                                              *)

Live(s) == pc[s] \in {"running", "leaving"}

\* The registry never keeps a session whose goroutine has run its deferred
\* function or never ran the handler: Active() counts no ghost, whatever the
\* order of track, untrack and the map replacement of a drain.
NoGhostEntry == \A s \in sessions : Live(s)

\* Active() misses a live session only after some drain has replaced the map.
TrackedUntilSwept ==
  \A s \in Session :
    Live(s) /\ s \notin sessions => \E d \in Drain : dpc[d] \in {"swept", "ok", "ctxErr"}

\* Once a drain has swept its snapshot, no session of the snapshot has an open
\* connection, however the session's own goroutine and its peer interleave.
SnapshotClosed ==
  \A d \in Drain : dpc[d] \in {"swept", "ok", "ctxErr"} =>
    \A s \in current[d] : ~open[s]

\* An upgrade request that meets a draining registry is answered by the HTTP
\* handler and never becomes a session, not even one closed with 1013.
LateRequestRefused ==
  \A s \in Session :
    [](draining /\ pc[s] = "request" => [](pc[s] \in {"request", "refused"}))

\* A drain that has begun returns, and every session of its snapshot ends.
DrainReturns == \A d \in Drain : dpc[d] = "marked" ~> dpc[d] \in {"ok", "ctxErr"}
SnapshotEnds ==
  \A d \in Drain, s \in Session : s \in current[d] ~> pc[s] = "ended"
=============================================================================
