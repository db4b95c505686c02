SPECIFICATION Spec
CONSTANTS
  c1 = c1
  c2 = c2
  e1 = e1
  e2 = e2
  a = a
  b = b
  new = new
  NoName = NoName
  NoJob = NoJob
  Names <- ThreeNames
  Callers <- OneCaller
  Editors <- TwoEditors
  Requests <- BothOrOne
  InitialEnvs <- TunnelAndDirect
  Forms <- SomeForms
  MaxRequests = 1
  MaxClock = 0
  MaxFaults = 1
  MaxEdits = 2
SYMMETRY Symmetric
INVARIANTS
  TypeOK
  TunnelWhileCalling
  SessionsAccounted
  RecordedOutcomeIsTrue
PROPERTIES
  OnlyMovesDisturb
