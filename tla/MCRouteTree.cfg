CONSTANTS
  Pattern <- MCPattern
  Path <- MCPath
  Char <- MCChar
  Param <- MCParam
  CatchAll <- MCCatchAll
  Nameless = {}
SPECIFICATION Spec
CHECK_DEADLOCK FALSE
INVARIANTS
  TypeOK
  RoutesFound
  LookupMatches
  NoRedirectLoop
