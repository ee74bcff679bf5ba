SPECIFICATION FairSpec
CONSTANTS
  Path <- Paths
  IconPath = "/icon"
  RedirectRules <- MCRedirectRules
  RewriteRules <- MCRewriteRules
  Strip <- MCStrip
  File = {"/f"}
  AllowOrigins = {"app"}
  SignTokens = TRUE
  PipeCap = 4
  Flushes = 10
  Request <- StreamRequest
  Chain <- StreamChain
  MethodNotAllowed = TRUE
  MaxTimeouts = 2
PROPERTY StreamAnswered
CHECK_DEADLOCK FALSE
