SPECIFICATION Spec
CONSTANTS
  h1 = h1
  h2 = h2
  a = a
  b = b
  d = d
  p = p
  q = q
  r = r
  Blank = Blank
  Handlers <- TwoHandlers
  Names <- ThreeNames
  Passwords <- ThreePasswords
  Requests <- EveryEdit
  InitialEnvs <- TwoEnvs
  Overlaps <- EitherWay
  MaxRequests = 3
  MaxFaults = 2
SYMMETRY Symmetric
INVARIANTS
  TypeOK
  NamesStayUnique
PROPERTIES
  UpdateKeepsPassword
  OnlyMovesMislead
  OnlyOvertakenDuplicate
  AnswerMeansSaved
  KeepsTheStore
