------------------------ MODULE SessionRegistryProofs ------------------------
(***************************************************************************)
(* Proofs about SessionRegistry for any number of sessions and drains.     *)
(***************************************************************************)
EXTENDS SessionRegistry, TLAPS

\* Every variable keeps its type through the handler and DrainContext.
THEOREM TypeCorrect == Spec => []TypeOK
<1>1. Init => TypeOK
  BY DEF Init, TypeOK, PC, DPC
<1>2. TypeOK /\ [Next]_vars => TypeOK'
  <2> SUFFICES ASSUME TypeOK, [Next]_vars PROVE TypeOK'
    OBVIOUS
  <2> USE DEF TypeOK, PC, DPC, Goto, DGoto, drainVars
  <2>1. ASSUME NEW s \in Session, CheckDraining(s) PROVE TypeOK'
    BY <2>1 DEF CheckDraining
  <2>2. ASSUME NEW s \in Session, FailHandshake(s) \/ Upgrade(s) \/ LoseUpgrade(s)
        PROVE TypeOK'
    BY <2>2 DEF FailHandshake, Upgrade, LoseUpgrade
  <2>3. ASSUME NEW s \in Session, Accept(s) PROVE TypeOK'
    BY <2>3 DEF Accept
  <2>4. ASSUME NEW s \in Session, TrackLoad(s) PROVE TypeOK'
    BY <2>4 DEF TrackLoad
  <2>5. ASSUME NEW s \in Session, TrackInsert(s) PROVE TypeOK'
    BY <2>5 DEF TrackInsert
  <2>6. ASSUME NEW s \in Session, TurnAway(s) PROVE TypeOK'
    BY <2>6 DEF TurnAway
  <2>7. ASSUME NEW s \in Session, Untrack(s) PROVE TypeOK'
    BY <2>7 DEF Untrack
  <2>8. ASSUME NEW s \in Session, CloseConn(s) PROVE TypeOK'
    BY <2>8 DEF CloseConn
  <2>9. ASSUME NEW s \in Session, HandlerReturn(s) \/ Disconnect(s) PROVE TypeOK'
    BY <2>9 DEF HandlerReturn, Disconnect
  <2>10. ASSUME NEW d \in Drain, MarkDraining(d) PROVE TypeOK'
    BY <2>10 DEF MarkDraining
  <2>11. ASSUME NEW d \in Drain, Snapshot(d) PROVE TypeOK'
    BY <2>11 DEF Snapshot
  <2>12. ASSUME NEW d \in Drain, CloseOne(d) PROVE TypeOK'
    BY <2>12 DEF CloseOne
  <2>13. ASSUME NEW d \in Drain, ResetSessions(d) PROVE TypeOK'
    BY <2>13 DEF ResetSessions
  <2>14. ASSUME NEW d \in Drain, Return(d) \/ ExpireContext(d) PROVE TypeOK'
    BY <2>14 DEF Return, ExpireContext
  <2>15. CASE UNCHANGED vars
    BY <2>15 DEF vars
  <2> QED
    BY <2>1, <2>2, <2>3, <2>4, <2>5, <2>6, <2>7, <2>8, <2>9, <2>10, <2>11, <2>12,
       <2>13, <2>14, <2>15 DEF Next, SessionStep, DrainStep
<1> QED
  BY <1>1, <1>2, PTL DEF Spec

-----------------------------------------------------------------------------
\* Whoever is in a snapshot has entered its handler: its connection is never
\* opened again.
Entered(s) == pc[s] \in {"running", "leaving", "closing", "ended"}

\* What a drain knows: its snapshot holds sessions that were live, and those it
\* has taken out of `todo` are closed and stay so.
DrainInv(d) ==
  /\ \A s \in current[d] : Entered(s)
  /\ dpc[d] = "sweeping" => \A s \in current[d] \ todo[d] : ~open[s]
  /\ dpc[d] \in {"swept", "ok", "ctxErr"} => \A s \in current[d] : ~open[s]

IInv ==
  /\ TypeOK
  /\ NoGhostEntry
  /\ TrackedUntilSwept
  /\ \A d \in Drain : DrainInv(d)

\* The empty registry satisfies the invariant.
LEMMA InitIInv == Init => IInv
  BY DEF Init, IInv, TypeOK, PC, DPC, NoGhostEntry, TrackedUntilSwept, DrainInv, Live

\* Every step of a handler, a session goroutine, a drain, the peer or the
\* caller's context preserves it.
LEMMA NextIInv == IInv /\ TypeOK' /\ [Next]_vars => IInv'
<1> SUFFICES ASSUME IInv, TypeOK', [Next]_vars PROVE IInv'
  OBVIOUS
<1> USE DEF IInv, TypeOK, Goto, DGoto, drainVars, NoGhostEntry, TrackedUntilSwept,
        DrainInv, Live, Entered
<1>1. ASSUME NEW s \in Session, CheckDraining(s) PROVE IInv'
  BY <1>1 DEF CheckDraining
<1>2. ASSUME NEW s \in Session, FailHandshake(s) PROVE IInv'
  BY <1>2 DEF FailHandshake
<1>3. ASSUME NEW s \in Session, Upgrade(s) PROVE IInv'
  BY <1>3 DEF Upgrade
<1>4. ASSUME NEW s \in Session, LoseUpgrade(s) PROVE IInv'
  BY <1>4 DEF LoseUpgrade
<1>5. ASSUME NEW s \in Session, Accept(s) PROVE IInv'
  BY <1>5 DEF Accept
<1>6. ASSUME NEW s \in Session, TrackLoad(s) PROVE IInv'
  BY <1>6 DEF TrackLoad
<1>7. ASSUME NEW s \in Session, TrackInsert(s) PROVE IInv'
  BY <1>7 DEF TrackInsert
<1>8. ASSUME NEW s \in Session, TurnAway(s) PROVE IInv'
  BY <1>8 DEF TurnAway
<1>9. ASSUME NEW s \in Session, Untrack(s) PROVE IInv'
  BY <1>9 DEF Untrack
<1>10. ASSUME NEW s \in Session, CloseConn(s) PROVE IInv'
  BY <1>10 DEF CloseConn
<1>11. ASSUME NEW s \in Session, HandlerReturn(s) PROVE IInv'
  BY <1>11 DEF HandlerReturn
<1>12. ASSUME NEW s \in Session, Disconnect(s) PROVE IInv'
  BY <1>12 DEF Disconnect
<1>13. ASSUME NEW d \in Drain, MarkDraining(d) PROVE IInv'
  BY <1>13 DEF MarkDraining
<1>14. ASSUME NEW d \in Drain, Snapshot(d) PROVE IInv'
  BY <1>14 DEF Snapshot
<1>15. ASSUME NEW d \in Drain, CloseOne(d) PROVE IInv'
  BY <1>15 DEF CloseOne
<1>16. ASSUME NEW d \in Drain, ResetSessions(d) PROVE IInv'
  BY <1>16 DEF ResetSessions
<1>17. ASSUME NEW d \in Drain, Return(d) PROVE IInv'
  BY <1>17 DEF Return
<1>18. ASSUME NEW d \in Drain, ExpireContext(d) PROVE IInv'
  BY <1>18 DEF ExpireContext
<1>19. CASE UNCHANGED vars
  BY <1>19 DEF vars
<1> QED
  BY <1>1, <1>2, <1>3, <1>4, <1>5, <1>6, <1>7, <1>8, <1>9, <1>10, <1>11, <1>12, <1>13, <1>14, <1>15, <1>16, <1>17, <1>18, <1>19 DEF Next, SessionStep, DrainStep

\* The conjunction the safety theorems follow from holds in every state.
THEOREM Invariance == Spec => []IInv
<1>1. Spec => []TypeOK
  BY TypeCorrect
<1> QED
  BY <1>1, InitIInv, NextIInv, PTL DEF Spec

\* Active() never counts a session that has left its handler or not entered it.
THEOREM NoGhost == Spec => []NoGhostEntry
<1>1. IInv => NoGhostEntry
  BY DEF IInv
<1> QED
  BY <1>1, Invariance, PTL

\* Active() misses a live session only once a drain has replaced the map.
THEOREM Tracked == Spec => []TrackedUntilSwept
<1>1. IInv => TrackedUntilSwept
  BY DEF IInv
<1> QED
  BY <1>1, Invariance, PTL

\* When a drain has gone over its snapshot every connection in it is closed, and
\* none is opened again, whatever other drains, handlers and peers do.
THEOREM SweepCloses == Spec => []SnapshotClosed
<1>1. IInv => SnapshotClosed
  BY DEF IInv, DrainInv, SnapshotClosed
<1> QED
  BY <1>1, Invariance, PTL

\* A request that finds the registry draining never becomes a session: the
\* handler answers it 503, because r.draining is never cleared.
THEOREM LateRefused == Spec => LateRequestRefused
<1> SUFFICES ASSUME NEW s \in Session
             PROVE  Spec => [](draining /\ pc[s] = "request"
                               => [](pc[s] \in {"request", "refused"}))
  BY DEF LateRequestRefused
<1> DEFINE Late == draining /\ pc[s] \in {"request", "refused"}
<1>1. draining /\ pc[s] = "request" => Late
  OBVIOUS
<1>2. TypeOK /\ Late /\ [Next]_vars => Late'
  <2> SUFFICES ASSUME TypeOK, Late, [Next]_vars PROVE Late'
    OBVIOUS
  <2> USE DEF TypeOK, Goto, DGoto
  <2>1. ASSUME NEW q \in Session, SessionStep(q) \/ HandlerReturn(q) \/ Disconnect(q)
        PROVE Late'
    BY <2>1 DEF SessionStep, CheckDraining, FailHandshake, Upgrade, LoseUpgrade,
       Accept, TrackLoad, TrackInsert, TurnAway, Untrack, CloseConn,
       HandlerReturn, Disconnect
  <2>2. ASSUME NEW d \in Drain, DrainStep(d) \/ ExpireContext(d) PROVE Late'
    BY <2>2 DEF DrainStep, MarkDraining, Snapshot, CloseOne, ResetSessions, Return,
       ExpireContext
  <2>3. CASE UNCHANGED vars
    BY <2>3 DEF vars
  <2> QED
    BY <2>1, <2>2, <2>3 DEF Next
<1>3. Late => pc[s] \in {"request", "refused"}
  OBVIOUS
<1> HIDE DEF Late
<1> QED
  BY <1>1, <1>2, <1>3, TypeCorrect, PTL DEF Spec
=============================================================================
