SPECIFICATION Spec
CONSTANTS
  h1 = h1
  h2 = h2
  a = a
  b = b
  d = d
  p = p
  q = q
  r = r
  Blank = Blank
  Handlers <- TwoHandlers
  Names <- ThreeNames
  Passwords <- ThreePasswords
  Requests <- BlankWhileDeleting
  InitialEnvs <- ThreeEnvs
  Overlaps <- Overlap
  MaxRequests = 2
  MaxFaults = 0
PROPERTIES
  UpdateReplacesItsOwn
