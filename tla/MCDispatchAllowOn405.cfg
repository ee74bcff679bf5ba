SPECIFICATION FairSpec
CONSTANTS
  Path <- Paths
  IconPath = "/icon"
  RedirectRules <- MCRedirectRules
  RewriteRules <- MCRewriteRules
  Strip <- MCStrip
  File = {"/f"}
  AllowOrigins = {"app"}
  SignTokens = TRUE
  PipeCap = 1
  Flushes = 1
  Request <- MCRequest
  Chain <- MCChain
  MethodNotAllowed = TRUE
  MaxTimeouts = 2
INVARIANT AllowOn405
CHECK_DEADLOCK FALSE
