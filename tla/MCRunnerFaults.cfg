SPECIFICATION FairSpec
CONSTANTS
  c1 = c1
  c2 = c2
  e1 = e1
  e2 = e2
  a = a
  b = b
  new = new
  NoName = NoName
  NoJob = NoJob
  Names <- TwoNames
  Callers <- TwoCallers
  Editors <- NoEditor
  Requests <- Both
  InitialEnvs <- TunnelAndDirect
  Forms <- NoForms
  MaxRequests = 2
  MaxClock = 1
  MaxFaults = 2
  MaxEdits = 0
INVARIANTS
  OneJobAtATime
  TunnelWhileCalling
  SessionsAccounted
  RecordedOutcomeIsTrue
PROPERTIES
  KeepsTheLog
  EveryRequestIsAnswered
