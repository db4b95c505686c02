SPECIFICATION Spec
CONSTANTS
  c1 = c1
  c2 = c2
  e1 = e1
  e2 = e2
  a = a
  b = b
  new = new
  NoName = NoName
  NoJob = NoJob
  Names <- TwoNames
  Callers <- OneCaller
  Editors <- OneEditor
  Requests <- OnlyA
  InitialEnvs <- TunnelAndDirect
  Forms <- NoForms
  MaxRequests = 1
  MaxClock = 0
  MaxFaults = 0
  MaxEdits = 1
INVARIANTS
  OneEnvironmentPerRun
