SPECIFICATION FairSpec
CONSTANTS
  k1 = k1
  k2 = k2
  Conns <- TwoConns
INVARIANTS
  TypeOK
  NothingLeftOpen
  BothEndsClosed
PROPERTIES
  GoroutinesEnd
  IsATunnel
