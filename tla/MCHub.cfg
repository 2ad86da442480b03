SPECIFICATION FairSpec
CONSTANTS
  u1 = u1
  u2 = u2
  t1 = t1
  t2 = t2
  x1 = x1
  x2 = x2
  c1 = c1
  c2 = c2
  Nobody = Nobody
  Conns = {c1, c2}
  Users = {u1, u2}
  Topics = {t1, t2}
  Vehicles = {x1, x2}
  Profiles <- MCProfiles
  Messages <- MCMessages
  MaxConnections = 1
  Buffer = 2
  MaxMessages = 3

PROPERTY KeepsPromise DeadLeave DroppedEnd
INVARIANT TypeOK OpenWhileRegistered MapsAgree DeliveredInOrder
CHECK_DEADLOCK FALSE
