SPECIFICATION Spec
CONSTANTS
  k1 = k1
  k2 = k2
  Conns <- NoConn
INVARIANTS
  DisconnectEndsForward
