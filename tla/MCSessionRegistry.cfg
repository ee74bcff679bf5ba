CONSTANTS
  Session = {s1, s2}
  Drain = {d1, d2}
SPECIFICATION FairSpec
CHECK_DEADLOCK FALSE
INVARIANTS
  NoGhostEntry
  TrackedUntilSwept
  SnapshotClosed
PROPERTIES
  LateRequestRefused
  DrainReturns
  SnapshotEnds
