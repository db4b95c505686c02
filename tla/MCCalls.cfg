SPECIFICATION Spec
CONSTANTS
  p4499 = p4499
  p14499 = p14499
  h1 = h1
  h2 = h2
  h3 = h3
  h4 = h4
  NoHost = NoHost
  Envs <- FourEnvs
  Direct <- LocalServer
  MaxEntries = 3
  MaxRuns = 3
  MaxCalls = 2
INVARIANTS
  TypeOK
  ReachesItsOwnHost
  NothingLeftUp
  LogIsTheNewest
  AnswersFollowRequests
