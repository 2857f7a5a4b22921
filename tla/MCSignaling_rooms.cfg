\* Three connections, two sessions of two peers, and ids for three joins.
SPECIFICATION Spec
CONSTANTS
  a = a
  b = b
  c = c
  p1 = p1
  p2 = p2
  p3 = p3
  r1 = r1
  r2 = r2
  None = None
  Sockets = {a, b, c}
  Peers = {p1, p2, p3}
  Sessions = {r1, r2}
  MaxPeers = 2
  MaxRelays = 1
SYMMETRY Symmetry
VIEW View
INVARIANTS
  TypeOK
  MapsAgree
  WithinCapacity
  Isolation
  SendersAnnounced
  OneInitiator
  RostersConverge
PROPERTIES
  ImplementsMembership
CHECK_DEADLOCK FALSE
