CONSTANTS
  Key = {a, b}
  Req = {r1, r2}
  Sweeper = Sweeper
  Nobody = Nobody
  Size = {1, 4}
  Expiration = 1
  MaxEntries = 1
  MaxBytes = 3
  AllowPrivateResponses = FALSE
  MaxTime = 2
SPECIFICATION FairSpec
INVARIANTS
  TypeOK
  EntriesBounded
  HitFresh
  NoPrivate
  NeverOvercounts
PROPERTIES
  LiveEntryStays
  RequestServed
