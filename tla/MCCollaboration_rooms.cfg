\* Four connections of two users to two projects, with a shot in each.
SPECIFICATION FairSpec
CONSTANTS
  u1 = u1
  u2 = u2
  c1 = c1
  c2 = c2
  c3 = c3
  c4 = c4
  p1 = p1
  p2 = p2
  s1 = s1
  s2 = s2
  None = None
  Users = {u1, u2}
  Conns = {c1, c2, c3, c4}
  Projects = {p1, p2}
  Shots = {s1, s2}
  UserOf <- Owners
  ProjectOf <- Targets
  Home <- Homes
INVARIANTS
  TypeOK
  LeaseHonoured
  TimerPerLock
  NoOrphanLocks
  PresenceIsLive
  ListsConverge
PROPERTIES
  LocksGiveUp
VIEW View
CHECK_DEADLOCK FALSE
