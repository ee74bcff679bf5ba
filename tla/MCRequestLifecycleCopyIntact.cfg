CONSTANTS
  get = get
  put = put
  post = post
  Conn = {k1, k2}
  Ctx = {x1, x2}
  Val = {v1, v2}
  Worker = {w1}
  Method <- MCMethod
  Length <- MCLength
  MaxReq = 3
  None = None
SPECIFICATION Spec
SYMMETRY Symmetry
CHECK_DEADLOCK FALSE
INVARIANT CopyIntact
