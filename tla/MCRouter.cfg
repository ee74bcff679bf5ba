CONSTANTS
  Mux = {root, m1, m2}
  Root = root
  Arr = {a0, a1}
  First = a0
  InitCap = 2
  auth = auth
  log = log
  tag = tag
  Middleware = {auth, log, tag}
  None = None
  Batch <- MCBatch
  Inline <- MCInline
  Method = {get, post}
  Get = get
  Token <- MCToken
  Given <- MCGiven
  Prefix <- MCPrefix
  book = book
  user = user
  Schema = {book, user}
  Opts <- MCOpts
  MaxRoutes = 2
  MaxLeft = 1
SPECIFICATION Spec
SYMMETRY Symmetry
CHECK_DEADLOCK FALSE
INVARIANTS
  BlockScoped
  PathsJoined
  RulesKept
