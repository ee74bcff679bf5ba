CONSTANTS
  Key = {a, b}
  Req = {r1, r2}
  Sweeper = Sweeper
  Nobody = Nobody
  Size = {1, 2, 3}
  Expiration = 1
  MaxEntries = 2
  MaxBytes = 3
  AllowPrivateResponses = FALSE
  MaxTime = 0
SPECIFICATION Spec
SYMMETRY Symmetry
INVARIANT BytesBounded
