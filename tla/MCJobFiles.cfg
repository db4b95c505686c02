SPECIFICATION Spec
CONSTANTS
  None = None
  Half = Half
  t1 = t1
  t2 = t2
  t3 = t3
  u1 = u1
  Temps <- ThreeTemps
  Users <- OneUser
  MaxJobs = 3
  Turns = 1
  RecentMax = 2
  MaxFaults = 1
  MaxCrashes = 1
SYMMETRY TempSymmetry
INVARIANTS
  TypeOK
  PageShowsTheNewest
  LinksHold
  NoLitter
PROPERTIES
  KeepsTheStore
