SPECIFICATION ServicesSpec
CONSTANTS
  Actions = {a1, a2}
  Replays = {r1, r2}
  MaxReplays = 2
  p1 = p1
  s1 = s1
  s2 = s2
  started_ = started_
  progress_ = progress_
  Publishers = {p1, p2}
  Awaiting = {p1}
  Subscribers = {s1, s2}
  Reporting = {s1}
  EventTypes = {started_, progress_}
  Wanted <- Wants
  MaxEvents <- EventCounts
  Members = {u1, u2}
  Sockets = {k1, k2, k3}
  TakePosts = {n1, n2, n3}
  TakeDeletes = {d1, d2}
INVARIANTS
  ServicesTypeOK
  StoredOnce
  NoneLost
  CalmQueue
  HandedOnce
  AwaitedInOrder
  ListedAreConnected
  NumbersDistinct
PROPERTIES
  PublishesEnd
  OnlineEnds
CHECK_DEADLOCK FALSE
